---- MODULE Spec2Model ----
(***************************************************************************)
(* Model of the faff backend's real-time message core:                     *)
(*   - socket.ts            (handshake, join_task, send_message, typing,   *)
(*                           task_updated, upload_progress, disconnect)    *)
(*   - messageController.ts (createMessage, updateMessage, deleteMessage,  *)
(*                           removeAttachment)                             *)
(*   - attachmentsController.ts (uploadAttachments)                        *)
(*   - fileService.ts       (processUploadedFiles, deleteAttachmentFiles)  *)
(*   - config/upload.ts     (messageUpload: disk storage + file filter)    *)
(*   - messageRoutes.ts     (messageUpload.array('files', 5))              *)
(* The message store (Sequelize/Postgres), the disk and socket.io's room   *)
(* adapter are modelled by what the calls made by this code do.            *)
(***************************************************************************)
EXTENDS Integers, Sequences, FiniteSets, TLC

(***************************************************************************)
(* Bounds of the model.                                                    *)
(***************************************************************************)
MaxMsgs == 2          \* message rows ever inserted (autoIncrement ids 1..MaxMsgs)
MaxFiles == 2         \* files written before the last request with files begins
MaxCalls == 2         \* requests and events handled step by step
MaxClock == 1         \* milliseconds that pass

(***************************************************************************)
(* Program constants.                                                      *)
(***************************************************************************)
MaxCount == 5         \* messageUpload.array('files', 5)
DefaultLimit == 20    \* parseInt(req.query.limit as string) || 20

(***************************************************************************)
(* The fixed population: users, tasks, connections.                        *)
(***************************************************************************)
Users == {1, 2}                 \* rows of the users table
TokenIds == {1, 2, 3}           \* ids a signed token can carry; 3 names no user
Tasks == {1, 2}                 \* rows of the tasks table
TaskIds == {1, 2, 3}            \* ids a client can name; 3 names no task
Conns == {"c1", "c2"}           \* socket ids

UserRole(u) == IF u = 1 THEN "admin" ELSE "operator"

(***************************************************************************)
(* JavaScript values that reach the handlers.  A task id or reply id in a  *)
(* payload is a number, a decimal string (every multipart field is a       *)
(* string) or undefined.                                                   *)
(***************************************************************************)
Undef == [t |-> "undef", v |-> 0]
Num(n) == [t |-> "num", v |-> n]
Str(n) == [t |-> "str", v |-> n]     \* the decimal string that spells n

\* JS truthiness: undefined and 0 are falsy; every non-empty string is truthy
Truthy(x) == \/ x.t = "str"
             \/ x.t = "num" /\ x.v # 0

\* parseInt(x): the number a decimal string spells; a number is unchanged
ParseInt(x) == [t |-> "num", v |-> x.v]

\* a !== b  negated: strict equality compares type and value
StrictEq(a, b) == a.t = b.t /\ a.v = b.v

\* the integer the database sees for a value bound to an INTEGER column / pk
ToInt(x) == x.v

\* `task_${taskId}`: the template renders a number and its decimal string alike
TaskRoom(n) == CASE n = 1 -> "task_1" [] n = 2 -> "task_2" [] OTHER -> "task_3"
RoomName(x) == TaskRoom(x.v)

\* room.startsWith('task_')
StartsWithTask(r) == r \in {TaskRoom(n) : n \in TaskIds}

\* the values a client can put in a taskId field, and in a replyToId field
TaskIdInputs == {Num(n) : n \in TaskIds} \cup {Str(n) : n \in {1}}
ReplyIdInputs == {Undef} \cup {Num(n) : n \in 1..MaxMsgs}
\* the task ids of the events that only name a room
RoomIdInputs == {Num(n) : n \in TaskIds}
\* the task ids clients join
JoinIdInputs == {Num(n) : n \in Tasks}

\* the content field: a string, or absent from the payload
NoContent == "<undefined>"
ContentInputs == {"hello"}

\* what the store does on a call: nothing special, or the write (create /
\* update / destroy) throws; reads are taken not to fail
Faults == {"none", "write"}

(***************************************************************************)
(* State.                                                                  *)
(***************************************************************************)
VARIABLES
  connState,   \* per socket: "idle" | "authenticated" | "rejected" | "disconnected"
  connUser,    \* socket.user.id, 0 while none is attached
  rooms,       \* socket.io adapter: the task rooms each socket is in
  messages,    \* the messages table: a set of rows
  nextMsgId,   \* the autoIncrement sequence of messages.id
  disk,        \* uploads/messages: the paths of the files present
  nextFile,    \* source of unique file names (Date.now()-uuid)
  up,          \* the multipart request being received by multer
  last,        \* the operation handled last: inputs, outcome, effects in order
  qa,          \* the qa_reviews table: a set of rows
  sums,        \* the summaries table: a set of rows
  calls,       \* the handlers that are between two awaits, by order of arrival
  clock,       \* Date.now(), in milliseconds
  client       \* the SocketService of one browser: its socket and currentTaskId

vars == <<connState, connUser, rooms, messages, nextMsgId, disk, nextFile, up, last,
          qa, sums, calls, clock, client>>

(***************************************************************************)
(* Message rows and attachment records (models/Message.ts).                *)
(***************************************************************************)
\* an Attachment: its uuid and the path of its file; an upload's uuid is
\* fresh per stored file, so it is numbered like the file
Att(i, p) == [id |-> i, path |-> p]

\* createdAt is set by Message.create (timestamps), see NewRow
Row(i, t, s, c, r, a) ==
  [id |-> i, taskId |-> t, senderId |-> s, content |-> c, replyToId |-> r,
   attachments |-> a, createdAt |-> 0]

NoRow == Row(0, 0, 0, "", 0, <<>>)

\* Model.findByPk
HasMsg(msgs, i) == \E m \in msgs : m.id = i
MsgByPk(msgs, i) == IF HasMsg(msgs, i) THEN CHOOSE m \in msgs : m.id = i ELSE NoRow
TaskExists(t) == t \in Tasks

(***************************************************************************)
(* Effects of a handler, in the order the handler produces them.           *)
(***************************************************************************)
Eff(k, name, to, n) == [k |-> k, name |-> name, to |-> to, n |-> n]
Unlink(p) == Eff("unlink", "", {}, p)             \* fs.unlink(path)
Emit(name, to, n) == Eff("emit", name, to, n)     \* an event and who receives it
Respond(status) == Eff("respond", "", {}, status) \* res.status(...).json(...)
Write(k, i) == Eff(k, "", {}, i)                  \* create / update / destroy row i

\* the elements of a sequence
Range(s) == {s[i] : i \in 1..Len(s)}

(***************************************************************************)
(* fileService.ts                                                          *)
(***************************************************************************)
\* processUploadedFiles: one Attachment per stored file, path = file.path
processUploadedFiles(files) == [i \in 1..Len(files) |-> Att(files[i], files[i])]

\* deleteAttachmentFiles: one fs.unlink per attachment, in list order; an
\* unlink error is logged and the promise resolves all the same
deleteAttachmentFiles(attachments) ==
  [i \in 1..Len(attachments) |-> Unlink(attachments[i].path)]

Paths(attachments) == {attachments[i].path : i \in 1..Len(attachments)}

(***************************************************************************)
(* The two message-creation paths, as functions of the store and the       *)
(* request: the outcome kind and the row that Message.create inserts.      *)
(***************************************************************************)
Outcome(kind, row) == [kind |-> kind, row |-> row]

\* Message.create: content is allowNull:false, so a missing content throws
CreateThrows(content, fault) == content = NoContent \/ fault = "write"

\* a messages table without the reference on replyToId
NoForeignKey(msgs, replyToId) == FALSE

\* replyToId references messages(id): an insert whose replyToId names no row
\* is refused by the database and Message.create throws
ForeignKeyFails(msgs, replyToId) ==
  Truthy(replyToId) /\ ~HasMsg(msgs, ToInt(replyToId))

\* the row Message.create inserts: replyToId || null, ids cast by the column,
\* createdAt the time of the call
NewRow(nid, sender, taskId, content, replyToId, attachments) ==
  [Row(nid, ToInt(taskId), sender, content,
       IF Truthy(replyToId) THEN ToInt(replyToId) ELSE 0, attachments)
     EXCEPT !.createdAt = clock]

\* a createMessage that does not compare the reply target's task
HttpReplyAnyTask(replyMessage, taskId) == TRUE

\* messageController.ts:37  replyMessage.taskId !== parseInt(taskId), negated
HttpReplySameTask(replyMessage, taskId) ==
  StrictEq(Num(replyMessage.taskId), ParseInt(taskId))

\* socket.ts:101  replyMessage.taskId !== taskId, negated
SocketReplySameTask(replyMessage, taskId) ==
  StrictEq(Num(replyMessage.taskId), taskId)

\* messageController.ts:13-45
HttpValidate(msgs, taskId, replyToId) ==
  IF ~TaskExists(ToInt(taskId)) THEN "TaskNotFound"
  ELSE IF ~Truthy(replyToId) THEN "ok"
  ELSE IF ~HasMsg(msgs, ToInt(replyToId)) THEN "ReplyNotFound"
  ELSE IF ~HttpReplySameTask(MsgByPk(msgs, ToInt(replyToId)), taskId) THEN "ReplyMismatch"
  ELSE "ok"

\* socket.ts:85-105
SocketValidate(msgs, taskId, replyToId) ==
  IF ~TaskExists(ToInt(taskId)) THEN "TaskNotFound"
  ELSE IF ~Truthy(replyToId) THEN "ok"
  ELSE IF ~HasMsg(msgs, ToInt(replyToId)) THEN "ReplyNotFound"
  ELSE IF ~SocketReplySameTask(MsgByPk(msgs, ToInt(replyToId)), taskId) THEN "ReplyMismatch"
  ELSE "ok"

\* createMessage, lines 8-75, up to the insert
HttpCreate(msgs, nid, sender, taskId, content, replyToId, attachments, fault) ==
  LET v == HttpValidate(msgs, taskId, replyToId)
  IN  IF v # "ok" THEN Outcome(v, NoRow)
      ELSE IF CreateThrows(content, fault) THEN Outcome("Exception", NoRow)
      ELSE Outcome("ok", NewRow(nid, sender, taskId, content, replyToId, attachments))

\* send_message, lines 77-132, up to the insert
SocketCreate(msgs, nid, sender, taskId, content, replyToId, attachments, fault) ==
  LET v == SocketValidate(msgs, taskId, replyToId)
  IN  IF v # "ok" THEN Outcome(v, NoRow)
      ELSE IF CreateThrows(content, fault) THEN Outcome("Exception", NoRow)
      ELSE Outcome("ok", NewRow(nid, sender, taskId, content, replyToId, attachments))

\* the status createMessage answers with
HttpStatus(kind) ==
  CASE kind = "ok" -> 201
    [] kind = "TaskNotFound" -> 404
    [] kind = "ReplyNotFound" -> 404
    [] kind = "ReplyMismatch" -> 400
    [] OTHER -> 500

ValidationKinds == {"TaskNotFound", "ReplyNotFound", "ReplyMismatch"}

(***************************************************************************)
(* The record of the operation handled last.                               *)
(***************************************************************************)
\* op: the handler; conn: the socket it ran for ("" for a request); kind:
\* how it ended; files: the files multer wrote for the request; trace: its
\* effects in order
Last(op, conn, kind, files, trace) ==
  [op |-> op, conn |-> conn, kind |-> kind, files |-> files, trace |-> trace]

NoUpload == [phase |-> "idle", route |-> "", total |-> 0, files |-> <<>>]

\* a handler that is between two awaits: op, the handler; pc, the await it is
\* at ("idle" before the request arrives, "done" after the handler returned);
\* conn and user, whom it runs for; target, reply and content, its inputs;
\* data, what it read or was given on the way; found, what its lookup
\* returned; row, the row it wrote; trace, its effects
Call(op, pc, conn, user, target, reply, content, data, found, row, trace) ==
  [op |-> op, pc |-> pc, conn |-> conn, user |-> user, target |-> target,
   reply |-> reply, content |-> content, data |-> data, found |-> found, row |-> row,
   trace |-> trace,
   \* req.files of the request, and the instance the handler's findByPk returned
   files |-> <<>>, seen |-> NoRow]

NoCall == Call("", "idle", "", 0, Undef, Undef, "", {}, 0, 0, <<>>)

\* handlers in flight are numbered in the order of their arrival
CallIds == 1..MaxCalls

\* services/socket.ts:7-8: socket = null, currentTaskId = null; socket names
\* the server-side connection the Socket is attached to, sendBuffer the
\* join_task events it holds until it is connected
NoClient == [socket |-> "", currentTaskId |-> 0, sendBuffer |-> <<>>]

Init ==
  /\ connState = [c \in Conns |-> "idle"]
  /\ connUser = [c \in Conns |-> 0]
  /\ rooms = [c \in Conns |-> {}]
  /\ messages = {}
  /\ nextMsgId = 1
  /\ disk = {}
  /\ nextFile = 1
  /\ up = NoUpload
  /\ last = Last("init", "", "", <<>>, <<>>)
  /\ qa = {}
  /\ sums = {}
  /\ calls = [k \in CallIds |-> NoCall]
  /\ clock = 0
  /\ client = NoClient

(***************************************************************************)
(* socket.ts: handshake.                                                   *)
(***************************************************************************)
\* handshake.auth.token: absent, not verifiable, or signed and carrying an id
Tokens == {[kind |-> "none", id |-> 0], [kind |-> "bad", id |-> 0]}
            \cup {[kind |-> "ok", id |-> i] : i \in TokenIds}

\* a handshake that trusts the id of a verified token without looking it up
authenticateTokenOnly(token) == IF token.kind = "ok" THEN token.id ELSE 0

\* authenticateSocket, lines 16-45: the user attached, 0 when next(Error)
authenticateSocket(token) ==
  IF token.kind = "none" THEN 0
  ELSE IF token.kind = "bad" THEN 0          \* jwt.verify throws
  ELSE IF token.id \notin Users THEN 0       \* User.findByPk finds nothing
  ELSE token.id

Connect(c, token) ==
  /\ connState[c] = "idle"
  /\ LET u == authenticateSocket(token)
     IN  /\ connState' = [connState EXCEPT ![c] = IF u = 0 THEN "rejected" ELSE "authenticated"]
         /\ connUser' = [connUser EXCEPT ![c] = u]
         \* a connected socket is in the room named by its own id
         /\ rooms' = [rooms EXCEPT ![c] = IF u = 0 THEN {} ELSE {c}]
         /\ last' = Last("connect", c, IF u = 0 THEN "Unauthenticated" ELSE "ok", <<>>, <<>>)
  /\ UNCHANGED <<messages, nextMsgId, disk, nextFile, up>>
  /\ UNCHANGED <<qa, sums, calls, clock, client>>

\* a close that leaves the socket in its rooms
DisconnectKeepsRooms(c) ==
  /\ connState[c] = "authenticated"
  /\ connState' = [connState EXCEPT ![c] = "disconnected"]
  /\ last' = Last("disconnect", c, "ok", <<>>, <<>>)
  /\ UNCHANGED <<connUser, rooms, messages, nextMsgId, disk, nextFile, up>>
  /\ UNCHANGED <<qa, sums, calls, clock, client>>

\* transport close or client disconnect: socket.io takes the socket out of
\* every room; the handler at lines 173-175 only logs
Disconnect(c) ==
  /\ connState[c] = "authenticated"
  /\ connState' = [connState EXCEPT ![c] = "disconnected"]
  /\ rooms' = [rooms EXCEPT ![c] = {}]
  /\ last' = Last("disconnect", c, "ok", <<>>, <<>>)
  /\ UNCHANGED <<connUser, messages, nextMsgId, disk, nextFile, up>>
  /\ UNCHANGED <<qa, sums, calls, clock, client>>

(***************************************************************************)
(* socket.ts: rooms and emitters.                                          *)
(***************************************************************************)
\* Object.keys(socket.rooms): socket.rooms is a Set (the handshake reads
\* handshake.auth, which exists from socket.io 3 on, where rooms is a Set),
\* and a Set has no own enumerable string keys
ObjectKeys(roomSet) == {}

\* lines 58-62: the rooms the forEach leaves
RoomsToLeave(c) == {room \in ObjectKeys(rooms[c]) : room # c /\ StartsWithTask(room)}

\* lines 56-68
JoinTask(c, taskId) ==
  /\ connState[c] = "authenticated"
  /\ rooms' = [rooms EXCEPT ![c] = (rooms[c] \ RoomsToLeave(c)) \cup {RoomName(taskId)}]
  /\ last' = Last("join_task", c, "ok", <<>>, <<>>)
  /\ UNCHANGED <<connState, connUser, messages, nextMsgId, disk, nextFile, up>>
  /\ UNCHANGED <<qa, sums, calls, clock, client>>

\* io.to(room): every socket in the room
InRoom(room) == {c \in Conns : room \in rooms[c]}
\* socket.to(room): every socket in the room but the sender
InRoomExcept(room, c) == InRoom(room) \ {c}

\* an error handler that reports to the task room, io.to(room).emit('error')
ErrorToRoom(c, taskId) == {c} \cup InRoom(RoomName(taskId))

\* socket.emit('error', ...): the recipients of a send_message error
ErrorRecipients(c, taskId) == {c}

\* a broadcast to every connected socket, io.emit('new_message', ...)
NewMessageToAll(taskId) == {c \in Conns : rooms[c] # {}}

\* io.to(`task_${taskId}`).emit('new_message', ...), lines 125-126
NewMessageRecipients(taskId) == InRoom(RoomName(taskId))

\* socket.to(`task_${taskId}`).emit('user_typing', ...), lines 140-147
TypingRecipients(c, taskId) == InRoomExcept(RoomName(taskId), c)

(***************************************************************************)
(* socket.ts: events of an authenticated connection.                       *)
(***************************************************************************)
\* the files whose attachment records clients hold: those of the messages,
\* and those in the directory that are not part of the upload in progress
Referenced(msgs) == UNION {Paths(m.attachments) : m \in msgs}
KnownFiles == Referenced(messages) \cup (disk \ Range(up.files))

\* the attachment lists a client puts in a send_message payload: none, or one
\* record it holds
ClientAttachments == {<<>>} \cup {<<Att(f, f)>> : f \in KnownFiles}

\* the path of a file of the server that no upload wrote
ServerFile == 0

\* an attachment list a client writes itself: one record whose path names a
\* file that is not an upload
ForgedAttachments == {<<Att(0, ServerFile)>>}

\* lines 71-133
SendMessage(c, taskId, content, replyToId, attachments, fault) ==
  /\ connState[c] = "authenticated"
  /\ LET res == SocketCreate(messages, nextMsgId, connUser[c], taskId, content,
                             replyToId, attachments, fault)
         stored == messages \cup {res.row}
     IN  IF res.kind = "ok"
         THEN /\ nextMsgId <= MaxMsgs
              /\ messages' = stored
              /\ nextMsgId' = nextMsgId + 1
              /\ last' = Last("send_message", c, "ok", <<>>,
                              <<Write("create", res.row.id),
                                Emit("new_message", NewMessageRecipients(taskId), res.row.id)>>)
         ELSE /\ UNCHANGED <<messages, nextMsgId>>
              /\ last' = Last("send_message", c, res.kind, <<>>,
                              <<Emit("error", ErrorRecipients(c, taskId), 0)>>)
  /\ UNCHANGED <<connState, connUser, rooms, disk, nextFile, up>>
  /\ UNCHANGED <<qa, sums, calls, clock, client>>

\* lines 136-148; isTyping is relayed as received
Typing(c, taskId) ==
  /\ connState[c] = "authenticated"
  /\ last' = Last("typing", c, "ok", <<>>,
                  <<Emit("user_typing", TypingRecipients(c, taskId), connUser[c])>>)
  /\ UNCHANGED <<connState, connUser, rooms, messages, nextMsgId, disk, nextFile, up>>
  /\ UNCHANGED <<qa, sums, calls, clock, client>>

\* a task_updated that answers the sender alone, socket.emit('refresh_task')
TaskUpdatedToSender(c, taskId) ==
  /\ connState[c] = "authenticated"
  /\ last' = Last("task_updated", c, "ok", <<>>,
                  <<Emit("refresh_task", {c}, ToInt(taskId))>>)
  /\ UNCHANGED <<connState, connUser, rooms, messages, nextMsgId, disk, nextFile, up>>
  /\ UNCHANGED <<qa, sums, calls, clock, client>>

\* lines 151-154
TaskUpdated(c, taskId) ==
  /\ connState[c] = "authenticated"
  /\ last' = Last("task_updated", c, "ok", <<>>,
                  <<Emit("refresh_task", InRoom(RoomName(taskId)), ToInt(taskId))>>)
  /\ UNCHANGED <<connState, connUser, rooms, messages, nextMsgId, disk, nextFile, up>>
  /\ UNCHANGED <<qa, sums, calls, clock, client>>

\* lines 157-170; progress and filename are relayed as received
UploadProgress(c, taskId) ==
  /\ connState[c] = "authenticated"
  /\ last' = Last("upload_progress", c, "ok", <<>>,
                  <<Emit("file_upload_progress", InRoom(RoomName(taskId)), connUser[c])>>)
  /\ UNCHANGED <<connState, connUser, rooms, messages, nextMsgId, disk, nextFile, up>>
  /\ UNCHANGED <<qa, sums, calls, clock, client>>

(***************************************************************************)
(* config/upload.ts and the routes: multer receives the file parts of a    *)
(* multipart request one after the other and writes each accepted part to  *)
(* uploads/messages before the route's handler runs.                       *)
(***************************************************************************)
ALLOWED_FILE_TYPES ==
  {"image/jpeg", "image/png", "image/gif", "image/webp", "image/svg+xml",
   "application/pdf", "application/msword",
   "application/vnd.openxmlformats-officedocument.wordprocessingml.document",
   "application/vnd.ms-excel",
   "application/vnd.openxmlformats-officedocument.spreadsheetml.sheet",
   "application/vnd.ms-powerpoint",
   "application/vnd.openxmlformats-officedocument.presentationml.presentation",
   "text/plain", "text/csv", "application/zip", "application/x-rar-compressed"}

MimeInputs == {"image/png", "application/x-sh"}

\* fileFilter, lines 49-55
fileFilter(mimetype) == mimetype \in ALLOWED_FILE_TYPES

\* an upload.array that counts one part too many
MulterAcceptsOneMore(accepted, mimetype) == accepted <= MaxCount /\ fileFilter(mimetype)

\* upload.array('files', 5): a part is refused once 5 parts were accepted
\* (LIMIT_UNEXPECTED_FILE); otherwise the fileFilter decides
MulterAccepts(accepted, mimetype) == accepted < MaxCount /\ fileFilter(mimetype)

\* the numbers of file parts a request carries
FileCounts == {0, 2, MaxCount + 1}

Routes == {"create", "update", "upload"}

\* the files a trace unlinks are gone from the directory afterwards
DiskAfter(d, trace) == d \ {e.n : e \in {x \in Range(trace) : x.k = "unlink"}}

\* a multipart request (or one without files) arrives at one of the routes
\* that run messageUpload.array('files', 5)
HttpBegin(route, n) ==
  /\ up.phase = "idle"
  /\ n > 0 => nextFile <= MaxFiles
  /\ up' = [phase |-> "uploading", route |-> route, total |-> n, files |-> <<>>]
  /\ last' = Last("http_begin", "", "", <<>>, <<>>)
  /\ UNCHANGED <<connState, connUser, rooms, messages, nextMsgId, disk, nextFile>>
  /\ UNCHANGED <<qa, sums, calls, clock, client>>

\* the next file part is accepted: messageStorage writes it under a fresh name
MulterStore(mimetype) ==
  /\ up.phase = "uploading"
  /\ Len(up.files) < up.total
  /\ MulterAccepts(Len(up.files), mimetype)
  /\ disk' = disk \cup {nextFile}
  /\ nextFile' = nextFile + 1
  /\ up' = [up EXCEPT !.files = Append(up.files, nextFile)]
  /\ last' = Last("multer_store", "", "", up'.files, <<>>)
  /\ UNCHANGED <<connState, connUser, rooms, messages, nextMsgId>>
  /\ UNCHANGED <<qa, sums, calls, clock, client>>

\* what multer does with the parts it already wrote when it refuses a part:
\* it removes each of them (storage._removeFile is fs.unlink)
MulterRemoveUploaded(files) == [i \in 1..Len(files) |-> Unlink(files[i])]

\* the next file part is refused: multer removes what it wrote and passes the
\* error on; the handler never runs and index.ts:136-145 answers 500
MulterReject(mimetype) ==
  /\ up.phase = "uploading"
  /\ Len(up.files) < up.total
  /\ ~MulterAccepts(Len(up.files), mimetype)
  /\ LET trace == MulterRemoveUploaded(up.files) \o <<Respond(500)>>
     IN  /\ disk' = DiskAfter(disk, trace)
         /\ last' = Last("multer_reject", "", "ValidationFailed", up.files, trace)
  /\ up' = NoUpload
  /\ UNCHANGED <<connState, connUser, rooms, messages, nextMsgId, nextFile>>
  /\ UNCHANGED <<qa, sums, calls, clock, client>>

\* all parts were accepted and written: the route's handler runs
Uploaded(route) ==
  /\ up.phase = "uploading"
  /\ up.route = route
  /\ Len(up.files) = up.total

(***************************************************************************)
(* messageController.ts: createMessage.                                    *)
(***************************************************************************)
\* a createMessage that cleans up on the first validation failure only
CreateCleanupTaskOnly(kind, files) ==
  IF kind = "TaskNotFound" /\ Len(files) > 0
  THEN deleteAttachmentFiles(processUploadedFiles(files))
  ELSE <<>>

\* lines 15-21, 27-33, 37-43: the cleanup each validation failure runs; the
\* catch block at lines 71-74 runs none
CreateCleanup(kind, files) ==
  IF kind \in ValidationKinds /\ Len(files) > 0
  THEN deleteAttachmentFiles(processUploadedFiles(files))
  ELSE <<>>

\* lines 7-75
CreateMessage(user, taskId, content, replyToId, fault) ==
  /\ Uploaded("create")
  /\ LET files == up.files
         attachments == IF Len(files) > 0 THEN processUploadedFiles(files) ELSE <<>>
         res == HttpCreate(messages, nextMsgId, user, taskId, content, replyToId,
                           attachments, fault)
         stored == messages \cup {res.row}
         status == HttpStatus(res.kind)
     IN  IF res.kind = "ok"
         THEN /\ nextMsgId <= MaxMsgs
              /\ messages' = stored
              /\ nextMsgId' = nextMsgId + 1
              /\ disk' = disk
              /\ last' = Last("createMessage", "", "ok", files,
                              <<Write("create", res.row.id), Respond(status)>>)
         ELSE LET trace == CreateCleanup(res.kind, files) \o <<Respond(status)>>
              IN  /\ UNCHANGED <<messages, nextMsgId>>
                  /\ disk' = DiskAfter(disk, trace)
                  /\ last' = Last("createMessage", "", res.kind, files, trace)
  /\ up' = NoUpload
  /\ UNCHANGED <<connState, connUser, rooms, nextFile>>
  /\ UNCHANGED <<qa, sums, calls, clock, client>>

(***************************************************************************)
(* attachmentsController.ts: uploadAttachments.                            *)
(***************************************************************************)
\* lines 6-37: the outcome; no path of the handler deletes a file
UploadOutcome(taskId, files) ==
  IF ~Truthy(taskId) THEN "BadRequest"
  ELSE IF Len(files) = 0 THEN "BadRequest"
  ELSE IF ~TaskExists(ToInt(taskId)) THEN "TaskNotFound"
  ELSE "ok"

UploadStatus(kind) ==
  CASE kind = "ok" -> 200
    [] kind = "BadRequest" -> 400
    [] kind = "TaskNotFound" -> 404
    [] OTHER -> 500

UploadAttachments(user, taskId) ==
  /\ Uploaded("upload")
  /\ LET kind == UploadOutcome(taskId, up.files)
     IN  last' = Last("uploadAttachments", "", kind, up.files, <<Respond(UploadStatus(kind))>>)
  /\ up' = NoUpload
  /\ UNCHANGED <<connState, connUser, rooms, messages, nextMsgId, disk, nextFile>>
  /\ UNCHANGED <<qa, sums, calls, clock, client>>

(***************************************************************************)
(* messageController.ts: updateMessage, deleteMessage, removeAttachment.   *)
(***************************************************************************)
\* req.params.id of the routes that name a message
MsgIdInputs == 1..MaxMsgs

\* an updateMessage without the sender check
UpdateOutcomeAnyUser(msgs, user, id, fault) ==
  IF ~HasMsg(msgs, id) THEN "NotFound"
  ELSE IF fault = "write" THEN "Exception"
  ELSE "ok"

\* updateMessage, lines 158-189: the outcome
UpdateOutcome(msgs, user, id, fault) ==
  IF ~HasMsg(msgs, id) THEN "NotFound"
  ELSE IF MsgByPk(msgs, id).senderId # user THEN "Forbidden"
  ELSE IF fault = "write" THEN "Exception"
  ELSE "ok"

\* lines 160-177: the cleanup of the two rejections; the catch block runs none
UpdateCleanup(kind, files) ==
  IF kind \in {"NotFound", "Forbidden"} /\ Len(files) > 0
  THEN deleteAttachmentFiles(processUploadedFiles(files))
  ELSE <<>>

MsgStatus(kind) ==
  CASE kind = "ok" -> 200
    [] kind = "NotFound" -> 404
    [] kind = "AttachmentNotFound" -> 404
    [] kind = "Forbidden" -> 403
    [] OTHER -> 500

\* the content an update may carry
UpdateContentInputs == {"edited", NoContent}

\* lines 151-211
UpdateMessage(user, id, content, fault) ==
  /\ Uploaded("update")
  /\ LET files == up.files
         m == MsgByPk(messages, id)
         kind == UpdateOutcome(messages, user, id, fault)
         newAttachments == IF Len(files) > 0 THEN processUploadedFiles(files) ELSE <<>>
         \* content || message.content ; [...message.attachments, ...newAttachments]
         updated == [m EXCEPT !.content = IF content = NoContent THEN m.content ELSE content,
                              !.attachments = m.attachments \o newAttachments]
         stored == (messages \ {m}) \cup {updated}
     IN  IF kind = "ok"
         THEN /\ messages' = stored
              /\ disk' = disk
              /\ last' = Last("updateMessage", "", "ok", files,
                              <<Write("update", id), Respond(200)>>)
         ELSE LET trace == UpdateCleanup(kind, files) \o <<Respond(MsgStatus(kind))>>
              IN  /\ messages' = messages
                  /\ disk' = DiskAfter(disk, trace)
                  /\ last' = Last("updateMessage", "", kind, files, trace)
  /\ up' = NoUpload
  /\ UNCHANGED <<connState, connUser, rooms, nextMsgId, nextFile>>
  /\ UNCHANGED <<qa, sums, calls, clock, client>>

\* a deleteMessage open to every authenticated user
MayDeleteAnyone(m, user) == TRUE

\* deleteMessage, lines 216-229: who may delete
MayDelete(m, user) == m.senderId = user \/ UserRole(user) = "admin"

\* lines 231-234: the unlink calls deleteMessage issues for a message
DeleteUnlinks(m) ==
  IF Len(m.attachments) > 0 THEN deleteAttachmentFiles(m.attachments) ELSE <<>>

\* message.destroy(): the row goes; the replyToId of its replies is set to
\* null (the association Message.hasMany(Message, replyToId) on a nullable key)
Destroy(msgs, m) ==
  {IF r.replyToId = m.id THEN [r EXCEPT !.replyToId = 0] ELSE r : r \in msgs \ {m}}

\* lines 214-243
DeleteMessage(user, id, fault) ==
  /\ LET m == MsgByPk(messages, id)
         kind == IF ~HasMsg(messages, id) THEN "NotFound"
                 ELSE IF ~MayDelete(m, user) THEN "Forbidden"
                 ELSE IF fault = "write" THEN "Exception"
                 ELSE "ok"
         \* the files are unlinked before destroy() is tried
         unlinks == IF kind \in {"ok", "Exception"}
                    THEN DeleteUnlinks(m) ELSE <<>>
     IN  /\ messages' = IF kind = "ok" THEN Destroy(messages, m) ELSE messages
         /\ disk' = DiskAfter(disk, unlinks)
         /\ last' = Last("deleteMessage", "", kind, <<>>,
                         unlinks \o (IF kind = "ok" THEN <<Write("destroy", id)>> ELSE <<>>)
                                 \o <<Respond(MsgStatus(kind))>>)
  /\ UNCHANGED <<connState, connUser, rooms, nextMsgId, nextFile, up>>
  /\ UNCHANGED <<qa, sums, calls, clock, client>>

\* the attachmentId a remove-attachment body can carry
AttachmentIdInputs == 0..(nextFile - 1)

\* lines 246-304
RemoveAttachment(user, id, attachmentId, fault) ==
  /\ LET m == MsgByPk(messages, id)
         found == {i \in 1..Len(m.attachments) : m.attachments[i].id = attachmentId}
         kind == IF ~HasMsg(messages, id) THEN "NotFound"
                 ELSE IF m.senderId # user THEN "Forbidden"
                 ELSE IF found = {} THEN "AttachmentNotFound"
                 ELSE IF fault = "write" THEN "Exception"
                 ELSE "ok"
         \* attachments.find: the first record with that id
         first == CHOOSE i \in found : \A j \in found : i <= j
         unlinks == IF kind \in {"ok", "Exception"}
                    THEN deleteAttachmentFiles(<<m.attachments[first]>>) ELSE <<>>
         \* attachments.filter(a => a.id !== attachmentId)
         updated == [m EXCEPT !.attachments =
                       SelectSeq(m.attachments, LAMBDA a : a.id # attachmentId)]
         stored == (messages \ {m}) \cup {updated}
     IN  /\ messages' = IF kind = "ok" THEN stored ELSE messages
         /\ disk' = DiskAfter(disk, unlinks)
         /\ last' = Last("removeAttachment", "", kind, <<>>,
                         unlinks \o (IF kind = "ok" THEN <<Write("update", id)>> ELSE <<>>)
                                 \o <<Respond(MsgStatus(kind))>>)
  /\ UNCHANGED <<connState, connUser, rooms, nextMsgId, nextFile, up>>
  /\ UNCHANGED <<qa, sums, calls, clock, client>>

(***************************************************************************)
(* Handlers taken one await at a time.  Node runs a handler up to its next *)
(* await and then takes up whichever pending handler has its reply; the    *)
(* statements between two awaits are one step.                             *)
(***************************************************************************)
\* slot k takes the next request or event to arrive
Arrives(k) ==
  /\ calls[k].pc = "idle"
  /\ \A j \in CallIds : j < k => calls[j].pc # "idle"

\* the handler of slot k runs up to its first await
Begin(k, call) ==
  /\ calls' = [calls EXCEPT ![k] = call]
  /\ last' = Last(call.op, call.conn, "pending", <<>>, <<>>)

\* the handler of slot k returns before its first await is over
Refuse(k, call, kind, trace) ==
  /\ calls' = [calls EXCEPT ![k] = [call EXCEPT !.pc = "done", !.trace = trace]]
  /\ last' = Last(call.op, call.conn, kind, <<>>, trace)

\* handler k is at the await named pc
At(k, op, pc) == calls[k].op = op /\ calls[k].pc = pc

\* handler k goes on to its next await
Goto(k, pc) ==
  /\ calls' = [calls EXCEPT ![k].pc = pc]
  /\ last' = Last(calls[k].op, calls[k].conn, "pending", <<>>, <<>>)

\* handler k returns: kind is how it ended, trace its effects in order
Return(k, kind, trace) ==
  /\ calls' = [calls EXCEPT ![k].pc = "done", ![k].trace = trace]
  /\ last' = Last(calls[k].op, calls[k].conn, kind, <<>>, trace)

(***************************************************************************)
(* socket.ts: the send_message handler, lines 71-133, one await at a time. *)
(* socket.io calls the listener when the event arrives and does not wait   *)
(* for the promise it returns.                                             *)
(***************************************************************************)
\* a senderId field a client may add to its payload or body: none, or a user id
PayloadSenders == {0} \cup Users

\* socket.ts:110  senderId: socket.user.id; the payload is destructured into
\* taskId, content, replyToId and attachments only (line 83)
SocketSender(c, claimed) == connUser[c]

\* lines 77-85: the event arrives; the handler runs up to Task.findByPk
SendArrive(k, c, taskId, content, replyToId) ==
  /\ Arrives(k)
  /\ connState[c] = "authenticated"
  /\ \E claimed \in PayloadSenders :
       Begin(k, Call("send_message", "findTask", c, SocketSender(c, claimed), taskId,
                     replyToId, content, {}, 0, 0, <<>>))
  /\ UNCHANGED <<connState, connUser, rooms, messages, nextMsgId, disk, nextFile, up>>
  /\ UNCHANGED <<qa, sums, clock, client>>

\* the error event of handler k
SendError(k) == <<Emit("error", ErrorRecipients(calls[k].conn, calls[k].target), 0)>>

\* lines 85-94: Task.findByPk answers
SendFindTask(k) ==
  /\ At(k, "send_message", "findTask")
  /\ IF ~TaskExists(ToInt(calls[k].target)) THEN Return(k, "TaskNotFound", SendError(k))
     ELSE IF Truthy(calls[k].reply) THEN Goto(k, "findReply")
     ELSE Goto(k, "create")
  /\ UNCHANGED <<connState, connUser, rooms, messages, nextMsgId, disk, nextFile, up>>
  /\ UNCHANGED <<qa, sums, clock, client>>

\* lines 94-108: Message.findByPk(replyToId) answers
SendFindReply(k) ==
  /\ At(k, "send_message", "findReply")
  /\ LET id == ToInt(calls[k].reply)
     IN  IF ~HasMsg(messages, id) THEN Return(k, "ReplyNotFound", SendError(k))
         ELSE IF ~SocketReplySameTask(MsgByPk(messages, id), calls[k].target)
         THEN Return(k, "ReplyMismatch", SendError(k))
         ELSE Goto(k, "create")
  /\ UNCHANGED <<connState, connUser, rooms, messages, nextMsgId, disk, nextFile, up>>
  /\ UNCHANGED <<qa, sums, clock, client>>

\* a handler that gives up at the persistence step once its socket has closed
SendCreateIfConnected(k, fault) ==
  /\ At(k, "send_message", "create")
  /\ connState[calls[k].conn] = "disconnected"
  /\ Return(k, "Cancelled", <<>>)
  /\ UNCHANGED <<connState, connUser, rooms, messages, nextMsgId, disk, nextFile, up>>
  /\ UNCHANGED <<qa, sums, clock, client>>

\* lines 108-117: Message.create answers
SendCreate(k, fault) ==
  /\ At(k, "send_message", "create")
  /\ LET call == calls[k]
         row == NewRow(nextMsgId, call.user, call.target, call.content, call.reply, <<>>)
     IN  IF CreateThrows(call.content, fault) \/ ForeignKeyFails(messages, call.reply)
         THEN /\ UNCHANGED <<messages, nextMsgId>>
              /\ Return(k, "Exception", SendError(k))
         ELSE /\ nextMsgId <= MaxMsgs
              /\ messages' = messages \cup {row}
              /\ nextMsgId' = nextMsgId + 1
              /\ calls' = [calls EXCEPT ![k].pc = "refetch", ![k].row = row.id,
                                        ![k].trace = <<Write("create", row.id)>>]
              /\ last' = Last("send_message", call.conn, "pending", <<>>, <<>>)
  /\ UNCHANGED <<connState, connUser, rooms, disk, nextFile, up>>
  /\ UNCHANGED <<qa, sums, clock, client>>

\* lines 117-126: the re-fetch answers and the message is broadcast
SendBroadcast(k) ==
  /\ At(k, "send_message", "refetch")
  /\ Return(k, "ok", calls[k].trace
                      \o <<Emit("new_message", NewMessageRecipients(calls[k].target),
                                calls[k].row)>>)
  /\ UNCHANGED <<connState, connUser, rooms, messages, nextMsgId, disk, nextFile, up>>
  /\ UNCHANGED <<qa, sums, clock, client>>

(***************************************************************************)
(* messageController.ts: createMessage for a request without files, lines  *)
(* 7-75, one await at a time.                                              *)
(***************************************************************************)
\* middleware/auth.ts, authenticate, lines 5-35: the id attached to the
\* request as req.user.id, 0 when the request is answered 401
authenticate(token) ==
  IF token.kind = "none" THEN 0
  ELSE IF token.kind = "bad" THEN 0          \* jwt.verify throws
  ELSE IF token.id \notin Users THEN 0       \* User.findByPk finds nothing
  ELSE token.id

\* lines 10-12, 19-21, 31-34: the request is answered 401 and no handler runs
Unauthorized(token) ==
  /\ authenticate(token) = 0
  /\ last' = Last("authenticate", "", "Unauthenticated", <<>>, <<Respond(401)>>)
  /\ UNCHANGED <<connState, connUser, rooms, messages, nextMsgId, disk, nextFile, up>>
  /\ UNCHANGED <<qa, sums, calls, clock, client>>

\* a createMessage that takes the sender from the body when the body names one
HttpSenderFromBody(user, claimed) == IF claimed # 0 THEN claimed ELSE user

\* messageController.ts:10  senderId = req.user.id; the body is destructured
\* into taskId, content and replyToId only (line 9)
HttpSender(user, claimed) == user

\* lines 8-14: the request of the authenticated user arrives; the handler runs
\* up to Task.findByPk
CreateArrive(k, user, taskId, content, replyToId) ==
  /\ Arrives(k)
  /\ \E claimed \in PayloadSenders :
       Begin(k, Call("createMessage", "findTask", "", HttpSender(user, claimed), taskId,
                     replyToId, content, {}, 0, 0, <<>>))
  /\ UNCHANGED <<connState, connUser, rooms, messages, nextMsgId, disk, nextFile, up>>
  /\ UNCHANGED <<qa, sums, clock, client>>

\* lines 14-26: Task.findByPk answers
CreateFindTask(k) ==
  /\ At(k, "createMessage", "findTask")
  /\ IF ~TaskExists(ToInt(calls[k].target))
     THEN Return(k, "TaskNotFound", <<Respond(HttpStatus("TaskNotFound"))>>)
     ELSE IF Truthy(calls[k].reply) THEN Goto(k, "findReply")
     ELSE Goto(k, "create")
  /\ UNCHANGED <<connState, connUser, rooms, messages, nextMsgId, disk, nextFile, up>>
  /\ UNCHANGED <<qa, sums, clock, client>>

\* lines 26-51: Message.findByPk(replyToId) answers
CreateFindReply(k) ==
  /\ At(k, "createMessage", "findReply")
  /\ LET id == ToInt(calls[k].reply)
     IN  IF ~HasMsg(messages, id)
         THEN Return(k, "ReplyNotFound", <<Respond(HttpStatus("ReplyNotFound"))>>)
         ELSE IF ~HttpReplySameTask(MsgByPk(messages, id), calls[k].target)
         THEN Return(k, "ReplyMismatch", <<Respond(HttpStatus("ReplyMismatch"))>>)
         ELSE Goto(k, "create")
  /\ UNCHANGED <<connState, connUser, rooms, messages, nextMsgId, disk, nextFile, up>>
  /\ UNCHANGED <<qa, sums, clock, client>>

\* lines 51-74: Message.create answers; then the re-fetch and the response
CreateInsert(k, fault) ==
  /\ At(k, "createMessage", "create")
  /\ LET call == calls[k]
         row == NewRow(nextMsgId, call.user, call.target, call.content, call.reply, <<>>)
         trace == <<Write("create", row.id), Respond(HttpStatus("ok"))>>
     IN  IF CreateThrows(call.content, fault) \/ ForeignKeyFails(messages, call.reply)
         THEN /\ UNCHANGED <<messages, nextMsgId>>
              /\ Return(k, "Exception", <<Respond(HttpStatus("Exception"))>>)
         ELSE /\ nextMsgId <= MaxMsgs
              /\ messages' = messages \cup {row}
              /\ nextMsgId' = nextMsgId + 1
              /\ calls' = [calls EXCEPT ![k].pc = "done", ![k].row = row.id,
                                        ![k].trace = trace]
              /\ last' = Last("createMessage", "", "ok", <<>>, trace)
  /\ UNCHANGED <<connState, connUser, rooms, disk, nextFile, up>>
  /\ UNCHANGED <<qa, sums, clock, client>>

(***************************************************************************)
(* messageController.ts: updateMessage, lines 151-211, and                 *)
(* removeAttachment, lines 246-304, one await at a time.  Each works on    *)
(* the instance its own findByPk returned, and instance.update writes the  *)
(* fields it was given to the row with that id.                            *)
(***************************************************************************)
\* instance.update({ content, attachments }): the row with the id of the
\* instance, if it is still there, takes the values; the others stay
InstanceUpdate(msgs, id, content, attachments) ==
  {IF r.id = id THEN [r EXCEPT !.content = content, !.attachments = attachments] ELSE r :
     r \in msgs}

\* lines 153-158: multer has stored the files; the handler runs up to
\* Message.findByPk
UpdateArrive(k, user, id, content) ==
  /\ Arrives(k)
  /\ Uploaded("update")
  /\ Begin(k, [Call("updateMessage", "findMsg", "", user, Undef, Undef, content,
                    {}, 0, id, <<>>) EXCEPT !.files = up.files])
  /\ up' = NoUpload
  /\ UNCHANGED <<connState, connUser, rooms, messages, nextMsgId, disk, nextFile>>
  /\ UNCHANGED <<qa, sums, clock, client>>

\* lines 158-186: findByPk returns; the two rejections clean up and answer,
\* otherwise the handler builds the new list from the instance it holds and
\* calls message.update
UpdateFind(k) ==
  /\ At(k, "updateMessage", "findMsg")
  /\ LET call == calls[k]
         kind == UpdateOutcome(messages, call.user, call.row, "none")
         trace == UpdateCleanup(kind, call.files) \o <<Respond(MsgStatus(kind))>>
     IN  IF kind = "ok"
         THEN /\ calls' = [calls EXCEPT ![k].pc = "update",
                                        ![k].seen = MsgByPk(messages, call.row)]
              /\ last' = Last("updateMessage", "", "pending", call.files, <<>>)
              /\ disk' = disk
         ELSE /\ Return(k, kind, trace)
              /\ disk' = DiskAfter(disk, trace)
  /\ UNCHANGED <<connState, connUser, rooms, messages, nextMsgId, nextFile, up>>
  /\ UNCHANGED <<qa, sums, clock, client>>

\* lines 180-183: [...message.attachments, ...newAttachments], of the
\* instance the handler read
UpdatedAttachments(call) ==
  call.seen.attachments
    \o (IF Len(call.files) > 0 THEN processUploadedFiles(call.files) ELSE <<>>)

\* lines 186-206: message.update writes, the row is read again and sent
UpdateWrite(k, fault) ==
  /\ At(k, "updateMessage", "update")
  /\ LET call == calls[k]
         content == IF call.content = NoContent THEN call.seen.content ELSE call.content
     IN  IF fault = "write"
         THEN /\ messages' = messages
              /\ Return(k, "Exception", <<Respond(MsgStatus("Exception"))>>)
         ELSE /\ messages' = InstanceUpdate(messages, call.row, content,
                                            UpdatedAttachments(call))
              /\ Return(k, "ok", <<Write("update", call.row), Respond(MsgStatus("ok"))>>)
  /\ UNCHANGED <<connState, connUser, rooms, nextMsgId, disk, nextFile, up>>
  /\ UNCHANGED <<qa, sums, clock, client>>

\* lines 248-252: the handler runs up to Message.findByPk
RemoveArrive(k, user, id, attachmentId) ==
  /\ Arrives(k)
  /\ Begin(k, Call("removeAttachment", "findMsg", "", user, Undef, Undef, "",
                   {}, attachmentId, id, <<>>))
  /\ UNCHANGED <<connState, connUser, rooms, messages, nextMsgId, disk, nextFile, up>>
  /\ UNCHANGED <<qa, sums, clock, client>>

\* lines 252-273: findByPk returns; the three rejections answer, otherwise
\* deleteAttachmentFiles unlinks the file of the record found
RemoveFind(k) ==
  /\ At(k, "removeAttachment", "findMsg")
  /\ LET call == calls[k]
         m == MsgByPk(messages, call.row)
         found == {i \in 1..Len(m.attachments) : m.attachments[i].id = call.found}
         kind == IF ~HasMsg(messages, call.row) THEN "NotFound"
                 ELSE IF m.senderId # call.user THEN "Forbidden"
                 ELSE IF found = {} THEN "AttachmentNotFound"
                 ELSE "ok"
         first == CHOOSE i \in found : \A j \in found : i <= j
         unlinks == deleteAttachmentFiles(<<m.attachments[first]>>)
     IN  IF kind = "ok"
         THEN /\ calls' = [calls EXCEPT ![k].pc = "update", ![k].seen = m,
                                        ![k].trace = unlinks]
              /\ last' = Last("removeAttachment", "", "pending", <<>>, unlinks)
              /\ disk' = DiskAfter(disk, unlinks)
         ELSE /\ Return(k, kind, <<Respond(MsgStatus(kind))>>)
              /\ disk' = disk
  /\ UNCHANGED <<connState, connUser, rooms, messages, nextMsgId, nextFile, up>>
  /\ UNCHANGED <<qa, sums, clock, client>>

\* lines 276-299: the list of the instance without the record is written,
\* the row is read again and sent
RemoveWrite(k, fault) ==
  /\ At(k, "removeAttachment", "update")
  /\ LET call == calls[k]
         updatedAttachments == SelectSeq(call.seen.attachments, LAMBDA a : a.id # call.found)
     IN  IF fault = "write"
         THEN /\ messages' = messages
              /\ Return(k, "Exception", call.trace \o <<Respond(MsgStatus("Exception"))>>)
         ELSE /\ messages' = InstanceUpdate(messages, call.row, call.seen.content,
                                            updatedAttachments)
              /\ Return(k, "ok", call.trace \o <<Write("update", call.row),
                                                  Respond(MsgStatus("ok"))>>)
  /\ UNCHANGED <<connState, connUser, rooms, nextMsgId, disk, nextFile, up>>
  /\ UNCHANGED <<qa, sums, clock, client>>

(***************************************************************************)
(* qaController.ts: requestQAReview.                                       *)
(***************************************************************************)
QARow(i, messageId, reviewerId, status) ==
  [id |-> i, messageId |-> messageId, reviewerId |-> reviewerId, status |-> status]

\* QAReview.findOne({ where: { messageId } })
ReviewsOf(reviews, messageId) == {r \in reviews : r.messageId = messageId}

QaStatus(kind) ==
  CASE kind = "ok" -> 201
    [] kind = "NotFound" -> 404
    [] kind = "AlreadyRequested" -> 400
    [] OTHER -> 500

\* lines 9-19: the request arrives; Message.findByPk(messageId)
RequestQAReview(k, user, messageId) ==
  /\ Arrives(k)
  /\ LET call == Call("requestQAReview", "findOne", "", user, Num(messageId), Undef, "",
                      {}, 0, 0, <<>>)
     IN  IF HasMsg(messages, messageId)
         THEN Begin(k, call)
         ELSE Refuse(k, call, "NotFound", <<Respond(QaStatus("NotFound"))>>)
  /\ UNCHANGED <<connState, connUser, rooms, messages, nextMsgId, disk, nextFile, up>>
  /\ UNCHANGED <<qa, sums, clock, client>>

\* lines 21-25: QAReview.findOne; a review found ends the request with 400
QaFindOne(k) ==
  /\ At(k, "requestQAReview", "findOne")
  /\ IF ReviewsOf(qa, ToInt(calls[k].target)) # {}
     THEN Return(k, "AlreadyRequested", <<Respond(QaStatus("AlreadyRequested"))>>)
     ELSE Goto(k, "create")
  /\ UNCHANGED <<connState, connUser, rooms, messages, nextMsgId, disk, nextFile, up>>
  /\ UNCHANGED <<qa, sums, clock, client>>

\* lines 27-57: QAReview.create, the re-fetch and the answer
QaCreate(k, fault) ==
  /\ At(k, "requestQAReview", "create")
  /\ LET id == Cardinality(qa) + 1
         row == QARow(id, ToInt(calls[k].target), calls[k].user, "pending")
     IN  IF fault = "write"
         THEN /\ qa' = qa
              /\ Return(k, "Exception", <<Respond(QaStatus("Exception"))>>)
         ELSE /\ qa' = qa \cup {row}
              /\ calls' = [calls EXCEPT ![k].pc = "done", ![k].row = id,
                                        ![k].trace = <<Write("create", id), Respond(201)>>]
              /\ last' = Last("requestQAReview", "", "ok", <<>>,
                              <<Write("create", id), Respond(201)>>)
  /\ UNCHANGED <<connState, connUser, rooms, messages, nextMsgId, disk, nextFile, up>>
  /\ UNCHANGED <<sums, clock, client>>

(***************************************************************************)
(* summaryController.ts and services/openaiService.ts.                     *)
(***************************************************************************)
SummaryRow(i, taskId, createdById, content, entities) ==
  [id |-> i, taskId |-> taskId, createdById |-> createdById, content |-> content,
   entities |-> entities]

\* Summary.findOne({ where: { taskId } }): the rows it can return
SummariesOf(rows, taskId) == {r \in rows : r.taskId = taskId}

\* Message.findAll({ where: { taskId } })
MessagesOf(msgs, taskId) == {m \in msgs : m.taskId = taskId}

\* the contents that hold a URL or a phone number
EntityContents == {"call +1 555 0100"}

\* extractEntitiesRegex, lines 52-77: the matches in the messages
extractEntitiesRegex(msgs) == {m.content : m \in {x \in msgs : x.content \in EntityContents}}

\* the content field of a createSummary body
SummaryContentInputs == {"manual"}

\* what openai.chat.completions.create does: it answers, or it throws
AiInputs == {"answer", "throw"}

\* the call to the text-generation service, as an effect of the handler
Ai(result) == Eff("ai", result, {}, 0)

\* generateTaskSummary, part_007 lines 18-87: the summary and the entities of
\* the answer, or, in the catch block, the error message as the summary and
\* no entities
AiErrorContent == "Error generating summary: <message>"
generateTaskSummary(result) ==
  IF result = "answer"
  THEN [content |-> "generated", entities |-> {"<entity of the answer>"}]
  ELSE [content |-> AiErrorContent, entities |-> {}]

SummaryStatus(op, kind) ==
  CASE kind = "ok" -> IF op = "createSummary" THEN 201 ELSE 200
    [] kind = "TaskNotFound" -> 404
    [] kind = "NoMessages" -> 400
    [] OTHER -> 500

\* createSummary, lines 34-80: the request arrives; Task.findByPk, then
\* Message.findAll and the regex extractor
CreateSummary(k, user, taskId, content) ==
  /\ Arrives(k)
  /\ LET call == Call("createSummary", "findOne", "", user, Num(taskId), Undef, content,
                      extractEntitiesRegex(MessagesOf(messages, taskId)), 0, 0, <<>>)
     IN  IF TaskExists(taskId)
         THEN Begin(k, call)
         ELSE Refuse(k, call, "TaskNotFound", <<Respond(404)>>)
  /\ UNCHANGED <<connState, connUser, rooms, messages, nextMsgId, disk, nextFile, up>>
  /\ UNCHANGED <<qa, sums, clock, client>>

\* generateSummary, lines 152-184: the request arrives; Task.findByPk, then
\* Message.findAll
GenerateSummary(k, user, taskId) ==
  /\ Arrives(k)
  /\ LET call == Call("generateSummary", "generate", "", user, Num(taskId), Undef, "",
                      {}, 0, 0, <<>>)
     IN  IF ~TaskExists(taskId)
         THEN Refuse(k, call, "TaskNotFound", <<Respond(404)>>)
         ELSE IF MessagesOf(messages, taskId) = {}
         THEN Refuse(k, call, "NoMessages", <<Respond(400)>>)
         ELSE Begin(k, call)
  /\ UNCHANGED <<connState, connUser, rooms, messages, nextMsgId, disk, nextFile, up>>
  /\ UNCHANGED <<qa, sums, clock, client>>

\* line 186: await generateTaskSummary(...)
SumGenerate(k, result) ==
  /\ At(k, "generateSummary", "generate")
  /\ LET aiSummary == generateTaskSummary(result)
     IN  calls' = [calls EXCEPT ![k].pc = "findOne",
                                ![k].content = aiSummary.content,
                                ![k].data = aiSummary.entities,
                                ![k].trace = <<Ai(result)>>]
  /\ last' = Last("generateSummary", "", "pending", <<>>, <<>>)
  /\ UNCHANGED <<connState, connUser, rooms, messages, nextMsgId, disk, nextFile, up>>
  /\ UNCHANGED <<qa, sums, clock, client>>

\* lines 83 and 189: Summary.findOne; found is the id of the row, 0 for null
SumFindOne(k, found) ==
  /\ calls[k].op \in {"createSummary", "generateSummary"}
  /\ calls[k].pc = "findOne"
  /\ LET rows == SummariesOf(sums, ToInt(calls[k].target))
     IN  IF rows = {} THEN found = 0 ELSE found \in {r.id : r \in rows}
  /\ calls' = [calls EXCEPT ![k].pc = "write", ![k].found = found]
  /\ last' = Last(calls[k].op, "", "pending", <<>>, <<>>)
  /\ UNCHANGED <<connState, connUser, rooms, messages, nextMsgId, disk, nextFile, up>>
  /\ UNCHANGED <<qa, sums, clock, client>>

\* lines 85-118 and 191-222: existingSummary.update or Summary.create, the
\* re-fetch and the answer
SumWrite(k, fault) ==
  /\ calls[k].op \in {"createSummary", "generateSummary"}
  /\ calls[k].pc = "write"
  /\ LET call == calls[k]
         taskId == ToInt(call.target)
         id == IF call.found # 0 THEN call.found ELSE Cardinality(sums) + 1
         row == SummaryRow(id, taskId, call.user, call.content, call.data)
         trace == call.trace \o <<Write(IF call.found # 0 THEN "update" ELSE "create", id),
                                  Respond(SummaryStatus(call.op, "ok"))>>
     IN  IF fault = "write"
         THEN /\ sums' = sums
              /\ Return(k, "Exception", call.trace \o <<Respond(500)>>)
         ELSE /\ sums' = {r \in sums : r.id # id} \cup {row}
              /\ calls' = [calls EXCEPT ![k].pc = "done", ![k].row = id, ![k].trace = trace]
              /\ last' = Last(call.op, "", "ok", <<>>, trace)
  /\ UNCHANGED <<connState, connUser, rooms, messages, nextMsgId, disk, nextFile, up>>
  /\ UNCHANGED <<qa, clock, client>>

(***************************************************************************)
(* messageController.ts: getTaskMessages.                                  *)
(***************************************************************************)
\* a millisecond passes
Tick ==
  /\ clock < MaxClock
  /\ clock' = clock + 1
  /\ last' = Last("tick", "", "", <<>>, <<>>)
  /\ UNCHANGED <<connState, connUser, rooms, messages, nextMsgId, disk, nextFile, up>>
  /\ UNCHANGED <<qa, sums, calls, client>>

\* parseInt(req.query.x as string) || d
QueryInt(x, d) == IF x.t = "undef" \/ x.v = 0 THEN d ELSE x.v

\* the page and limit parameters of a query: absent, or a number
PageInputs == {Undef, Num(1), Num(2)}
LimitInputs == {Undef, Num(1)}

\* order: [['createdAt', 'ASC']]: the orders in which the database may return
\* the rows; rows with the same createdAt come in any order
Orders(rows) ==
  {order \in [1..Cardinality(rows) -> rows] :
     /\ \A i, j \in 1..Cardinality(rows) : i # j => order[i] # order[j]
     /\ \A i, j \in 1..Cardinality(rows) : i < j => order[i].createdAt <= order[j].createdAt}

\* limit, offset
Slice(order, offset, limit) ==
  [i \in 1..(IF Len(order) - offset < 0 THEN 0
              ELSE IF Len(order) - offset < limit THEN Len(order) - offset ELSE limit)
     |-> order[offset + i]]

\* a row of the response
Returned(m) == Eff("row", "", {}, m.id)

\* lines 78-117
GetTaskMessages(taskId, page, limit) ==
  /\ LET p == QueryInt(page, 1)
         l == QueryInt(limit, DefaultLimit)
         offset == (p - 1) * l
     IN  IF ~TaskExists(taskId)
         THEN last' = Last("getTaskMessages", "", "TaskNotFound", <<>>, <<Respond(404)>>)
         ELSE \E order \in Orders(MessagesOf(messages, taskId)) :
                LET rows == Slice(order, offset, l)
                IN  last' = Last("getTaskMessages", "", "ok", <<>>,
                                 [i \in 1..Len(rows) |-> Returned(rows[i])]
                                   \o <<Respond(200)>>)
  /\ UNCHANGED <<connState, connUser, rooms, messages, nextMsgId, disk, nextFile, up>>
  /\ UNCHANGED <<qa, sums, calls, clock, client>>

(***************************************************************************)
(* faff-frontend/src/services/socket.ts: the SocketService of one browser, *)
(* lines 6-48, with the server-side connection its Socket is attached to.  *)
(* socket.io-client keeps the events emitted while the Socket is not       *)
(* connected and sends them once it is; with the options of lines 15-20 it *)
(* opens a new connection by itself after the transport is lost.           *)
(***************************************************************************)
\* the join_task events the Socket holds at most
MaxBuffer == 2

\* this.socket?.connected
ClientConnected == client.socket # "" /\ connState[client.socket] = "authenticated"

\* the rooms of connection c after the server handled join_task(taskId),
\* socket.ts:56-68
RoomsAfterJoin(c, taskId) == (rooms[c] \ RoomsToLeave(c)) \cup {RoomName(taskId)}

\* connect(token), lines 10-33: unless the Socket is connected, io(...)
\* makes a new Socket that opens a connection of its own; currentTaskId is
\* left as it is
ClientConnect(c) ==
  /\ ~ClientConnected
  /\ c # client.socket
  /\ connState[c] = "idle"
  /\ client' = [client EXCEPT !.socket = c, !.sendBuffer = <<>>]
  /\ last' = Last("client_connect", c, "pending", <<>>, <<>>)
  /\ UNCHANGED <<connState, connUser, rooms, messages, nextMsgId, disk, nextFile, up>>
  /\ UNCHANGED <<qa, sums, calls, clock>>

\* the server answers the handshake of the connection the Socket opened
ClientHandshake(token) ==
  /\ client.socket # ""
  /\ Connect(client.socket, token)

\* joinTask(taskId), lines 43-48: the event is emitted unless currentTaskId
\* is taskId already; a connected Socket sends it and the server handles it,
\* otherwise the Socket keeps it
ClientJoinTask(taskId) ==
  /\ client.socket # ""
  /\ client.currentTaskId # taskId
  /\ IF ClientConnected /\ client.sendBuffer = <<>>
     THEN /\ rooms' = [rooms EXCEPT ![client.socket] = RoomsAfterJoin(client.socket, Num(taskId))]
          /\ client' = [client EXCEPT !.currentTaskId = taskId]
          /\ last' = Last("join_task", client.socket, "ok", <<>>, <<>>)
     ELSE /\ Len(client.sendBuffer) < MaxBuffer
          /\ rooms' = rooms
          /\ client' = [client EXCEPT !.currentTaskId = taskId,
                                      !.sendBuffer = Append(client.sendBuffer, taskId)]
          /\ last' = Last("client_join", client.socket, "pending", <<>>, <<>>)
  /\ UNCHANGED <<connState, connUser, messages, nextMsgId, disk, nextFile, up>>
  /\ UNCHANGED <<qa, sums, calls, clock>>

\* the connected Socket sends the first event it kept; the server handles it
ClientFlush ==
  /\ ClientConnected
  /\ client.sendBuffer # <<>>
  /\ rooms' = [rooms EXCEPT ![client.socket] =
                 RoomsAfterJoin(client.socket, Num(Head(client.sendBuffer)))]
  /\ client' = [client EXCEPT !.sendBuffer = Tail(client.sendBuffer)]
  /\ last' = Last("join_task", client.socket, "ok", <<>>, <<>>)
  /\ UNCHANGED <<connState, connUser, messages, nextMsgId, disk, nextFile, up>>
  /\ UNCHANGED <<qa, sums, calls, clock>>

\* disconnect(), lines 35-41: the connection is closed, socket and
\* currentTaskId are null again
ClientDisconnect ==
  /\ client.socket # ""
  /\ IF connState[client.socket] = "authenticated"
     THEN /\ connState' = [connState EXCEPT ![client.socket] = "disconnected"]
          /\ rooms' = [rooms EXCEPT ![client.socket] = {}]
     ELSE UNCHANGED <<connState, rooms>>
  /\ client' = NoClient
  /\ last' = Last("disconnect", client.socket, "ok", <<>>, <<>>)
  /\ UNCHANGED <<connUser, messages, nextMsgId, disk, nextFile, up>>
  /\ UNCHANGED <<qa, sums, calls, clock>>

\* the transport of the Socket's connection is lost
TransportDrop ==
  /\ client.socket # ""
  /\ Disconnect(client.socket)

\* lines 15-20: reconnection is not turned off, so after the transport is
\* lost the Socket opens a new connection; the service is not told
\* (lines 22-28 only log) and currentTaskId stays
ClientReconnect(c) ==
  /\ client.socket # ""
  /\ connState[client.socket] = "disconnected"
  /\ connState[c] = "idle"
  /\ client' = [client EXCEPT !.socket = c]
  /\ last' = Last("client_reconnect", c, "pending", <<>>, <<>>)
  /\ UNCHANGED <<connState, connUser, rooms, messages, nextMsgId, disk, nextFile, up>>
  /\ UNCHANGED <<qa, sums, calls, clock>>

(***************************************************************************)
(* The system.  socket.ts serves every connection; the request handlers    *)
(* serve any authenticated user.                                           *)
(***************************************************************************)
\* the events of socket.ts that touch no row: handshake, rooms, relays
NextRooms ==
  \/ \E c \in Conns, token \in Tokens : Connect(c, token)
  \/ \E c \in Conns : Disconnect(c)
  \/ \E c \in Conns, taskId \in JoinIdInputs : JoinTask(c, taskId)
  \/ \E c \in Conns, taskId \in RoomIdInputs : Typing(c, taskId)
  \/ \E c \in Conns, taskId \in RoomIdInputs : TaskUpdated(c, taskId)
  \/ \E c \in Conns, taskId \in RoomIdInputs : UploadProgress(c, taskId)

NextSend ==
  \E c \in Conns, taskId \in TaskIdInputs, content \in ContentInputs,
     replyToId \in ReplyIdInputs, attachments \in ClientAttachments, fault \in Faults :
       SendMessage(c, taskId, content, replyToId, attachments, fault)

\* a request arrives at a route behind multer
NextBegin(routes, counts) == \E route \in routes, n \in counts : HttpBegin(route, n)

\* multer takes the next file part
NextMulter ==
  \/ \E mimetype \in MimeInputs : MulterStore(mimetype)
  \/ \E mimetype \in MimeInputs : MulterReject(mimetype)

NextCreate ==
  \E user \in Users, taskId \in TaskIdInputs, content \in ContentInputs,
     replyToId \in ReplyIdInputs, fault \in Faults :
       CreateMessage(user, taskId, content, replyToId, fault)

NextUploadOnly ==
  \E user \in Users, taskId \in TaskIdInputs \cup {Undef} : UploadAttachments(user, taskId)

NextUpdate ==
  \E user \in Users, id \in MsgIdInputs, content \in UpdateContentInputs, fault \in Faults :
     UpdateMessage(user, id, content, fault)

NextDelete ==
  \E user \in Users, id \in MsgIdInputs, fault \in Faults : DeleteMessage(user, id, fault)

NextRemove ==
  \E user \in Users, id \in MsgIdInputs, attachmentId \in AttachmentIdInputs,
     fault \in Faults : RemoveAttachment(user, id, attachmentId, fault)

NextHttp ==
  \/ NextBegin(Routes, FileCounts)
  \/ NextMulter
  \/ NextCreate
  \/ NextUploadOnly
  \/ NextUpdate
  \/ NextDelete
  \/ NextRemove

\* one connection that authenticates and sends messages
NextSender(attachmentLists) ==
  \/ \E token \in Tokens : Connect("c1", token)
  \/ \E taskId \in TaskIdInputs, content \in ContentInputs, replyToId \in ReplyIdInputs,
        attachments \in attachmentLists, fault \in Faults :
          SendMessage("c1", taskId, content, replyToId, attachments, fault)

Next == NextRooms \/ NextSend \/ NextHttp

\* every connection event and every request, in any order
Spec == Init /\ [][Next]_vars

\* socket.ts: the handshake, the rooms and the relayed events
SpecRooms == Init /\ [][NextRooms]_vars

\* socket.ts: the handshake, the rooms and send_message
SpecSend ==
  Init /\ [][\/ \E c \in Conns, token \in Tokens : Connect(c, token)
             \/ \E c \in Conns : Disconnect(c)
             \/ \E c \in Conns, taskId \in JoinIdInputs : JoinTask(c, taskId)
             \/ NextSend]_vars

\* the create-message route: multer, then createMessage
SpecCreate == Init /\ [][NextBegin({"create"}, FileCounts) \/ NextMulter \/ NextCreate]_vars

\* the three routes behind multer
SpecRoutes ==
  Init /\ [][NextBegin(Routes, FileCounts) \/ NextMulter \/ NextCreate \/ NextUploadOnly
               \/ NextUpdate]_vars

\* the two intake paths side by side, for messages without files: the
\* create-message route, and one connection that sends messages
SpecIntake == Init /\ [][NextBegin({"create"}, {0}) \/ NextCreate \/ NextSender({<<>>})]_vars

\* a message's life: created on either path, then deleted
SpecLife ==
  Init /\ [][NextBegin({"create"}, FileCounts) \/ NextMulter \/ NextCreate
               \/ NextSender(ClientAttachments) \/ NextDelete]_vars

\* send_message and createMessage with the ids drawn from given sets
NextSendOf(taskIds, replyIds) ==
  \E c \in Conns, taskId \in taskIds, content \in ContentInputs, replyToId \in replyIds,
     fault \in Faults : SendMessage(c, taskId, content, replyToId, <<>>, fault)

NextCreateOf(users, taskIds, replyIds) ==
  \E user \in users, taskId \in taskIds, content \in ContentInputs, replyToId \in replyIds,
     fault \in Faults : CreateMessage(user, taskId, content, replyToId, fault)

\* socket.ts whole: the handshake, the rooms, the relayed events, and
\* send_message for an existing and a missing task
SpecSocket == Init /\ [][NextRooms \/ NextSendOf({Num(1), Num(3)}, {Undef})]_vars

\* messages of one task, with or without files, and their deletion
SpecDelete ==
  Init /\ [][NextBegin({"create"}, {0, 2}) \/ NextMulter \/ NextCreateOf(Users, {Num(1)}, {Undef})
               \/ NextDelete]_vars

NextUpdateOf(faults) ==
  \E user \in Users, id \in MsgIdInputs, content \in UpdateContentInputs, fault \in faults :
     UpdateMessage(user, id, content, fault)

NextRemoveOf(faults) ==
  \E user \in Users, id \in MsgIdInputs, attachmentId \in AttachmentIdInputs,
     fault \in faults : RemoveAttachment(user, id, attachmentId, fault)

\* messages of one task created without files by an operator, and the two
\* routes that change a message, requested by the operator or by the admin:
\* updateMessage, with or without a file, and removeAttachment
SpecUpdate ==
  Init /\ [][NextBegin({"create"}, {0}) \/ NextBegin({"update"}, {0, 1}) \/ NextMulter
               \/ NextCreateOf({2}, {Num(1)}, {Undef})
               \/ NextUpdateOf({"none"}) \/ NextRemoveOf({"none"})]_vars

NextQa ==
  \/ \E k \in CallIds, user \in Users, messageId \in MsgIdInputs :
       RequestQAReview(k, user, messageId)
  \/ \E k \in CallIds : QaFindOne(k)
  \/ \E k \in CallIds, fault \in Faults : QaCreate(k, fault)

\* messages of one task, and requests for their review
SpecQa ==
  Init /\ [][NextBegin({"create"}, {0}) \/ NextCreateOf(Users, {Num(1)}, {Undef})
               \/ NextQa]_vars

NextSummary ==
  \/ \E k \in CallIds, user \in Users, taskId \in TaskIds, content \in SummaryContentInputs :
       CreateSummary(k, user, taskId, content)
  \/ \E k \in CallIds, user \in Users, taskId \in TaskIds : GenerateSummary(k, user, taskId)
  \/ \E k \in CallIds, result \in AiInputs : SumGenerate(k, result)
  \/ \E k \in CallIds, found \in 0..MaxCalls : SumFindOne(k, found)
  \/ \E k \in CallIds, fault \in Faults : SumWrite(k, fault)

\* messages of one task, and requests for a summary of a task
SpecSummary ==
  Init /\ [][NextBegin({"create"}, {0}) \/ NextCreateOf(Users, {Num(1)}, {Undef})
               \/ NextSummary]_vars

NextSendSteps(taskIds, replyIds) ==
  \/ \E k \in CallIds, c \in Conns, taskId \in taskIds, content \in ContentInputs,
        replyToId \in replyIds : SendArrive(k, c, taskId, content, replyToId)
  \/ \E k \in CallIds : SendFindTask(k)
  \/ \E k \in CallIds : SendFindReply(k)
  \/ \E k \in CallIds, fault \in Faults : SendCreate(k, fault)
  \/ \E k \in CallIds : SendBroadcast(k)

\* connections whose send_message events, for an existing or a missing task,
\* with or without a reply target, are handled one await at a time
SpecOrder ==
  Init /\ [][\/ \E c \in Conns, token \in Tokens : Connect(c, token)
             \/ \E c \in Conns : JoinTask(c, Num(1))
             \/ NextSendSteps({Num(1), Num(3)}, {Undef, Num(1)})]_vars

NextPages ==
  \E taskId \in TaskIds, page \in PageInputs, limit \in LimitInputs :
    GetTaskMessages(taskId, page, limit)

\* messages of one task created over time, and the reading of their pages
SpecPages ==
  Init /\ [][NextBegin({"create"}, {0}) \/ NextCreateOf(Users, {Num(1)}, {Undef})
               \/ Tick \/ NextPages]_vars

\* connections that join the room of a task, send messages to it and may
\* close while their send_message handlers are between two awaits
SpecCancel ==
  Init /\ [][\/ \E c \in Conns : Connect(c, [kind |-> "ok", id |-> 2])
             \/ \E c \in Conns : JoinTask(c, Num(1))
             \/ \E c \in Conns : Disconnect(c)
             \/ NextSendSteps({Num(1)}, {Undef, Num(1)})]_vars

\* messages of two tasks, with or without a reply target, created on either
\* path one await at a time by an operator, and deleted by anyone; the store
\* itself does not fail
SpecReply ==
  Init /\ [][\/ Connect("c1", [kind |-> "ok", id |-> 2])
             \/ \E k \in CallIds, taskId \in {Num(1), Num(2)}, replyToId \in {Undef, Num(1)} :
                  \/ SendArrive(k, "c1", taskId, "hello", replyToId)
                  \/ CreateArrive(k, 2, taskId, "hello", replyToId)
             \/ \E k \in CallIds : SendFindTask(k) \/ CreateFindTask(k)
             \/ \E k \in CallIds : SendFindReply(k) \/ CreateFindReply(k)
             \/ \E k \in CallIds : SendCreate(k, "none") \/ CreateInsert(k, "none")
             \/ \E k \in CallIds : SendBroadcast(k)
             \/ \E user \in Users, id \in MsgIdInputs : DeleteMessage(user, id, "none")]_vars

\* one browser: its SocketService, the connections its Socket opens and
\* the server's side of them
SpecClient ==
  Init /\ [][\/ \E c \in Conns : ClientConnect(c)
             \/ \E token \in {[kind |-> "ok", id |-> 2], [kind |-> "bad", id |-> 0]} :
                  ClientHandshake(token)
             \/ \E taskId \in Tasks : ClientJoinTask(taskId)
             \/ ClientFlush
             \/ ClientDisconnect
             \/ TransportDrop
             \/ \E c \in Conns : ClientReconnect(c)]_vars

\* a message created with one file by an operator, and the operator's
\* requests to append a file to a message and to remove an attachment, one
\* await at a time; the store does not fail
SpecAttach ==
  Init /\ [][\/ NextBegin({"create", "update"}, {1})
             \/ MulterStore("image/png")
             \/ CreateMessage(2, Num(1), "hello", Undef, "none")
             \/ \E k \in CallIds, id \in MsgIdInputs : UpdateArrive(k, 2, id, NoContent)
             \/ \E k \in CallIds, id \in MsgIdInputs, attachmentId \in AttachmentIdInputs :
                  RemoveArrive(k, 2, id, attachmentId)
             \/ \E k \in CallIds : UpdateFind(k) \/ RemoveFind(k)
             \/ \E k \in CallIds : UpdateWrite(k, "none") \/ RemoveWrite(k, "none")]_vars

\* an operator who uploads files with the create-message route, sends
\* messages whose attachment records are their own, and deletes messages or
\* removes attachments; the store does not fail
SpecForge ==
  Init /\ [][\/ NextBegin({"create"}, {0, 1}) \/ NextMulter
             \/ NextCreateOf({2}, {Num(1)}, {Undef})
             \/ Connect("c1", [kind |-> "ok", id |-> 2])
             \/ \E attachments \in ClientAttachments \cup ForgedAttachments :
                  SendMessage("c1", Num(1), "hello", Undef, attachments, "none")
             \/ \E id \in MsgIdInputs : DeleteMessage(2, id, "none")
             \/ \E id \in MsgIdInputs, attachmentId \in AttachmentIdInputs :
                  RemoveAttachment(2, id, attachmentId, "none")]_vars

\* connections and requests of any user, verified or not, that create
\* messages for one task, one await at a time; the store does not fail
SpecIdentity ==
  Init /\ [][\/ \E c \in Conns, token \in Tokens : Connect(c, token)
             \/ \E token \in Tokens : Unauthorized(token)
             \/ \E k \in CallIds, c \in Conns : SendArrive(k, c, Num(1), "hello", Undef)
             \/ \E k \in CallIds, token \in Tokens :
                  /\ authenticate(token) # 0
                  /\ CreateArrive(k, authenticate(token), Num(1), "hello", Undef)
             \/ \E k \in CallIds : SendFindTask(k) \/ CreateFindTask(k)
             \/ \E k \in CallIds : SendCreate(k, "none") \/ CreateInsert(k, "none")
             \/ \E k \in CallIds : SendBroadcast(k)]_vars

(***************************************************************************)
(* Properties.                                                             *)
(***************************************************************************)
\* the task rooms a socket is in
TaskRooms(c) == {room \in rooms[c] : StartsWithTask(room)}

\* the effects of one kind in a trace, in order
Only(trace, k) == SelectSeq(trace, LAMBDA e : e.k = k)

\* C1: after any sequence of join_task events a connection is in at most one
\* task room, and after join_task(t) that room is task_t: joining B after A
\* leaves the connection in B and not in A.
C1_OneTaskRoom ==
  [][\A c \in Conns :
       /\ Cardinality(TaskRooms(c)') <= 1
       /\ \A taskId \in JoinIdInputs :
            JoinTask(c, taskId) => TaskRooms(c)' = {RoomName(taskId)}]_vars

\* C2: every successful create, by createMessage or by send_message, is
\* followed by a new_message event to the room of the message's task.
C2_BroadcastAfterCreate ==
  (last.op \in {"createMessage", "send_message"} /\ last.kind = "ok") =>
    \E i \in 1..Len(last.trace), j \in 1..Len(last.trace) :
      /\ i < j
      /\ last.trace[i].k = "create"
      /\ last.trace[j].k = "emit"
      /\ last.trace[j].name = "new_message"
      /\ last.trace[j].n = last.trace[i].n
      /\ last.trace[j].to = InRoom(TaskRoom(MsgByPk(messages, last.trace[i].n).taskId))

\* C3: on the same inputs createMessage and send_message end the same way
\* and insert the same row.
C3_PathsIndistinguishable ==
  \A sender \in Users, taskId \in TaskIdInputs, content \in ContentInputs,
     replyToId \in ReplyIdInputs, attachments \in {<<>>, <<Att(1, 1)>>}, fault \in Faults :
       HttpCreate(messages, nextMsgId, sender, taskId, content, replyToId, attachments, fault)
         = SocketCreate(messages, nextMsgId, sender, taskId, content, replyToId, attachments, fault)

\* the reply id names a row of another task than the one the message is for
ReplyInOtherTask(msgs, taskId, replyToId) ==
  /\ Truthy(replyToId)
  /\ HasMsg(msgs, ToInt(replyToId))
  /\ MsgByPk(msgs, ToInt(replyToId)).taskId # ToInt(taskId)

\* a create on either path with these ids
CreatesWith(taskId, replyToId) ==
  \/ \E user \in Users, content \in ContentInputs, fault \in Faults :
       CreateMessage(user, taskId, content, replyToId, fault)
  \/ \E c \in Conns, content \in ContentInputs, fault \in Faults :
       SendMessage(c, taskId, content, replyToId, <<>>, fault)

\* C4 (as stated): on either path a create whose replyToId names a message of
\* a different task always fails with the reply-mismatch error and adds no row.
C4_AlwaysReplyMismatch ==
  [][\A taskId \in TaskIdInputs, replyToId \in ReplyIdInputs :
       (ReplyInOtherTask(messages, taskId, replyToId) /\ CreatesWith(taskId, replyToId))
         => (last'.kind = "ReplyMismatch" /\ messages' = messages)]_vars

\* C4 (amended): such a create always fails and adds no row; the error is the
\* reply-mismatch error when the message's task exists, and task-not-found
\* when it does not (the task is looked up first).
C4_ReplyMismatchOrTaskNotFound ==
  [][\A taskId \in TaskIdInputs, replyToId \in ReplyIdInputs :
       (ReplyInOtherTask(messages, taskId, replyToId) /\ CreatesWith(taskId, replyToId))
         => /\ messages' = messages
            /\ nextMsgId' = nextMsgId
            /\ last'.kind = IF TaskExists(ToInt(taskId)) THEN "ReplyMismatch" ELSE "TaskNotFound"]_vars

\* C4 witness: a create was refused with the reply-mismatch error while the
\* store holds a message
C4_Witness ==
  /\ last.op \in {"createMessage", "send_message"}
  /\ last.kind = "ReplyMismatch"
  /\ messages # {}

\* C5: a send_message that fails (task not found, reply not found, reply
\* mismatch, or an exception while persisting) emits exactly one error event,
\* to the originating connection only; nothing is stored, and the connection
\* stays authenticated and in the rooms it was in.
C5_SendFailureIsLocal ==
  [][(last'.op = "send_message" /\ last'.kind # "ok") =>
       /\ last'.kind \in ValidationKinds \cup {"Exception"}
       /\ last'.trace = <<Emit("error", {last'.conn}, 0)>>
       /\ connState'[last'.conn] = "authenticated"
       /\ connState' = connState
       /\ connUser' = connUser
       /\ rooms' = rooms
       /\ messages' = messages]_vars

\* C5 witness: a send_message failed on a connection that shares a task room
\* with another authenticated connection
C5_Witness ==
  /\ last.op = "send_message"
  /\ last.kind \in ValidationKinds \cup {"Exception"}
  /\ \E d \in Conns \ {last.conn} :
       /\ connState[d] = "authenticated"
       /\ TaskRooms(d) \cap TaskRooms(last.conn) # {}

\* C6: a typing event from connection c reaches every other connection in
\* c's current task room and no one else; it never reaches a connection in a
\* room c is not in.
C6_TypingStaysInSendersRoom ==
  (last.op = "typing") =>
    /\ Len(last.trace) = 1
    /\ last.trace[1].name = "user_typing"
    /\ last.trace[1].to =
         {d \in Conns \ {last.conn} : TaskRooms(d) \cap TaskRooms(last.conn) # {}}

\* every file of the list is unlinked by the trace before the trace responds,
\* and the response is the last effect
UnlinkedBeforeResponse(files, trace) ==
  /\ Len(trace) > 0
  /\ trace[Len(trace)].k = "respond"
  /\ Only(trace, "respond") = <<trace[Len(trace)]>>
  /\ \A f \in Range(files) : \E i \in 1..(Len(trace) - 1) : trace[i] = Unlink(f)

\* C7: when createMessage receives uploaded files and fails validation (task
\* not found, reply target not found, reply target in another task), a delete
\* is issued for each uploaded file before the error response, and no row is
\* persisted.
C7_ValidationFailureCleansUp ==
  [][(last'.op = "createMessage" /\ last'.kind \in ValidationKinds /\ Len(up.files) > 0) =>
       /\ UnlinkedBeforeResponse(up.files, last'.trace)
       /\ Len(Only(last'.trace, "unlink")) = Len(up.files)
       /\ last'.trace[Len(last'.trace)].n \in {400, 404}
       /\ Only(last'.trace, "create") = <<>>
       /\ messages' = messages
       /\ nextMsgId' = nextMsgId]_vars

\* C7 witness: createMessage refused a reply into another task for a request
\* that had uploaded two files
C7_Witness ==
  /\ last.op = "createMessage"
  /\ last.kind = "ReplyMismatch"
  /\ Len(last.files) = 2
  /\ Range(last.files) \cap disk = {}

\* C8: a failure after files were received (createMessage or updateMessage
\* failing with a 500 at the persistence step, or the upload-only endpoint
\* answering 404 for a missing task) deletes every file the request uploaded.
C8_FailureDeletesUploads ==
  ( /\ Len(last.files) > 0
    /\ \/ last.op \in {"createMessage", "updateMessage"} /\ last.kind = "Exception"
       \/ last.op = "uploadAttachments" /\ last.kind = "TaskNotFound" )
  => /\ \A f \in Range(last.files) : Unlink(f) \in Range(last.trace)
     /\ Range(last.files) \cap disk = {}

\* a create-message request with more files than the route allows is being
\* received
OverLimitCreate ==
  up.phase = "uploading" /\ up.route = "create" /\ up.total > MaxCount

\* C9 (as stated): a create-message request carrying 6 files is rejected as a
\* whole; at no point of its handling is any of its files in the attachment
\* store, and no row is created.
C9_NoFileEverStored ==
  /\ OverLimitCreate => Range(up.files) \cap disk = {}
  /\ (last.op = "multer_reject" /\ Len(last.files) = MaxCount) =>
        Only(last.trace, "unlink") = <<>>

\* C9 (amended): a create-message request carrying 6 files is rejected as a
\* whole: createMessage never runs for it and no row is created; multer writes
\* up to 5 of its files before it refuses a part, and a delete is issued for
\* each file written before the request is answered with the error, so that
\* none of them is in the store afterwards.
C9_OverLimitRejected ==
  [][OverLimitCreate =>
       /\ last'.op \in {"multer_store", "multer_reject"}
       /\ messages' = messages
       /\ nextMsgId' = nextMsgId
       /\ Len(up'.files) <= MaxCount
       /\ last'.op = "multer_reject" =>
            /\ UnlinkedBeforeResponse(up.files, last'.trace)
            /\ last'.trace[Len(last'.trace)] = Respond(500)
            /\ Range(up.files) \cap disk' = {}
            /\ up' = NoUpload]_vars

\* C9 witness: a request was refused at its sixth file after five were written
C9_Witness ==
  /\ last.op = "multer_reject"
  /\ Len(last.files) = MaxCount
  /\ Len(Only(last.trace, "unlink")) = MaxCount
  /\ messages = {}

\* C10: deleting a message with N attachments issues exactly N deletes, one
\* per attachment; afterwards the row is gone and the message store holds no
\* reference to any of those files.
C10_DeleteLeavesNoReference ==
  [][\A user \in Users, id \in MsgIdInputs, fault \in Faults :
       (DeleteMessage(user, id, fault) /\ last'.kind = "ok") =>
         LET m == MsgByPk(messages, id)
         IN  /\ Only(last'.trace, "unlink") = deleteAttachmentFiles(m.attachments)
             /\ ~HasMsg(messages', id)
             /\ Referenced(messages') \cap Paths(m.attachments) = {}]_vars

\* the events a connected socket can have handled
SocketEvents == {"join_task", "send_message", "typing", "task_updated", "upload_progress"}

\* C13: a connection becomes authenticated, and has events handled, only if
\* its handshake token verified and names an existing user; with a missing or
\* unverifiable token, or one that names no user, it is rejected: no identity
\* is attached, it joins no room and none of its events is handled.
C13_OnlyVerifiedConnections ==
  [][/\ \A c \in Conns, token \in Tokens :
          Connect(c, token) =>
            IF token.kind = "ok" /\ token.id \in Users
            THEN connState'[c] = "authenticated" /\ connUser'[c] = token.id
            ELSE connState'[c] = "rejected" /\ connUser'[c] = 0 /\ rooms'[c] = {}
     /\ \A c \in Conns :
          /\ (connState'[c] = "authenticated" /\ connState[c] # "authenticated")
                => last'.op = "connect" /\ last'.conn = c
          /\ connState[c] = "rejected"
                => connState'[c] = "rejected" /\ connUser'[c] = 0 /\ rooms'[c] = {}
     /\ last'.op \in SocketEvents
          => connState[last'.conn] = "authenticated" /\ connUser[last'.conn] \in Users]_vars

\* C13 witness: one connection was rejected and another, authenticated, has
\* had an event handled
C13_Witness ==
  /\ \E c \in Conns : connState[c] = "rejected" /\ connUser[c] = 0 /\ rooms[c] = {}
  /\ last.op \in SocketEvents
  /\ connState[last.conn] = "authenticated"

\* C15: once a connection is disconnected it is in no room, no event names
\* it as a recipient, no event of it is handled, and it stays disconnected.
C15_DisconnectedIsTerminal ==
  [][\A c \in Conns :
       /\ connState'[c] = "disconnected" => rooms'[c] = {}
       /\ connState[c] = "disconnected" =>
            /\ connState'[c] = "disconnected"
            /\ last'.conn # c
            /\ \A i \in 1..Len(last'.trace) :
                 last'.trace[i].k = "emit" => c \notin last'.trace[i].to]_vars

\* C15 witness: a message was broadcast to a room with a member while another
\* connection was disconnected
C15_Witness ==
  /\ \E c \in Conns : connState[c] = "disconnected"
  /\ last.op = "send_message"
  /\ last.kind = "ok"
  /\ last.trace[2].to # {}

\* the requester is the message's sender or an admin
SenderOrAdmin(m, user) == m.senderId = user \/ UserRole(user) = "admin"

\* C16: deleteMessage succeeds only for the message's sender or an admin; for
\* any other requester it answers 403 and leaves the row and every attachment
\* file untouched.
C16_DeleteBySenderOrAdmin ==
  [][\A user \in Users, id \in MsgIdInputs, fault \in Faults :
       (HasMsg(messages, id) /\ DeleteMessage(user, id, fault)) =>
         LET m == MsgByPk(messages, id)
         IN  /\ last'.kind = "ok" => SenderOrAdmin(m, user)
             /\ ~SenderOrAdmin(m, user) =>
                  /\ last'.kind = "Forbidden"
                  /\ last'.trace = <<Respond(403)>>
                  /\ messages' = messages
                  /\ disk' = disk]_vars

\* C16 witness: a delete was refused with 403 for a message whose files are
\* in the directory
C16_Witness ==
  /\ last.op = "deleteMessage"
  /\ last.kind = "Forbidden"
  /\ \E m \in messages : Len(m.attachments) > 0 /\ Paths(m.attachments) \subseteq disk

\* C17: a message's content and attachments change only through a successful
\* updateMessage or removeAttachment, and those requested by anyone but the
\* sender (an admin included) answer 403 and leave the message unchanged:
\* a step of either handler is such a refusal, or it is the step of no
\* request made by someone other than the sender.
C17_OnlySenderEdits ==
  [][/\ last'.op = "updateMessage" =>
          \/ /\ last'.kind = "Forbidden"
             /\ last'.trace[Len(last'.trace)] = Respond(403)
             /\ messages' = messages
          \/ \A user \in Users, id \in MsgIdInputs, fault \in Faults :
               (HasMsg(messages, id) /\ MsgByPk(messages, id).senderId # user) =>
                 \A content \in UpdateContentInputs :
                   ~UpdateMessage(user, id, content, fault)
     /\ last'.op = "removeAttachment" =>
          \/ /\ last'.kind = "Forbidden"
             /\ last'.trace = <<Respond(403)>>
             /\ messages' = messages
             /\ disk' = disk
          \/ \A user \in Users, id \in MsgIdInputs, fault \in Faults :
               (HasMsg(messages, id) /\ MsgByPk(messages, id).senderId # user) =>
                 \A attachmentId \in AttachmentIdInputs :
                   ~RemoveAttachment(user, id, attachmentId, fault)
     /\ messages' # messages =>
          \A m \in messages, n \in messages' :
            (m.id = n.id /\ (m.content # n.content \/ m.attachments # n.attachments))
              => last'.op \in {"updateMessage", "removeAttachment"} /\ last'.kind = "ok"]_vars

\* C17 witness: the admin's update of an operator's message, sent with a file,
\* was refused
C17_Witness ==
  /\ last.op = "updateMessage"
  /\ last.kind = "Forbidden"
  /\ Len(last.files) > 0
  /\ \E m \in messages : m.senderId # 1

\* C18: in every state each attachment is referenced by at most one message.
C18_AttachmentsNotShared ==
  \A m \in messages, n \in messages :
    m.id # n.id =>
      /\ Paths(m.attachments) \cap Paths(n.attachments) = {}
      /\ {m.attachments[i].id : i \in 1..Len(m.attachments)}
           \cap {n.attachments[i].id : i \in 1..Len(n.attachments)} = {}

\* C11: after any sequence of requestQAReview calls, interleaved or not, a
\* message has at most one QAReview row.
C11_OneReviewPerMessage ==
  \A id \in MsgIdInputs : Cardinality(ReviewsOf(qa, id)) <= 1

\* C12: after any sequence of createSummary and generateSummary calls,
\* interleaved or not, a task has at most one Summary row.
C12_OneSummaryPerTask ==
  \A taskId \in Tasks : Cardinality(SummariesOf(sums, taskId)) <= 1

\* C20: when the text-generation service fails during generateSummary the
\* request reports a failure, and the error text is not stored as a summary
\* (nor written over an existing one).
C20_GenerationFailureIsExplicit ==
  /\ \A r \in sums : r.content # AiErrorContent
  /\ (last.op = "generateSummary" /\ Ai("throw") \in Range(last.trace)) =>
       /\ last.kind # "ok"
       /\ Respond(200) \notin Range(last.trace)
       /\ Only(last.trace, "update") = <<>>
       /\ Only(last.trace, "create") = <<>>

\* C14: the send_message events of one connection are handled one at a time
\* in arrival order: the handler of an event has returned before the handler
\* of the next event of that connection begins, and two messages of one
\* connection are persisted in the order their events arrived.
C14_OneEventAtATime ==
  \A j \in CallIds, k \in CallIds :
    (j < k /\ calls[j].op = "send_message" /\ calls[k].op = "send_message"
       /\ calls[j].conn = calls[k].conn) =>
      /\ calls[j].pc = "done"
      /\ (calls[j].row # 0 /\ calls[k].row # 0) => calls[j].row < calls[k].row

\* the ids of a task's messages in insertion order
InsertionOrder(msgs, taskId) ==
  LET ids == {m.id : m \in MessagesOf(msgs, taskId)}
  IN  CHOOSE order \in [1..Cardinality(ids) -> ids] :
        \A i, j \in 1..Cardinality(ids) : i < j => order[i] < order[j]

\* C19: getTaskMessages returns the messages of a task in insertion order:
\* page p with limit l holds the messages at positions (p-1)*l+1 .. p*l of the
\* task's insertion order, so that no earlier message follows a later one
\* and every message is on exactly one page.
C19_PagesInInsertionOrder ==
  [][\A taskId \in Tasks, page \in PageInputs, limit \in LimitInputs :
       GetTaskMessages(taskId, page, limit) =>
         LET l == QueryInt(limit, DefaultLimit)
             rows == Only(last'.trace, "row")
         IN  rows = [i \in 1..Len(rows) |->
                       Returned([id |-> Slice(InsertionOrder(messages, taskId),
                                               (QueryInt(page, 1) - 1) * l, l)[i]])]]_vars

\* the members of a task's room
Members(taskId) == {c \in Conns : TaskRoom(taskId) \in rooms[c]}

Created(k) == calls[k].op = "send_message" /\ calls[k].row # 0

\* handler k has emitted the new_message event of its row
Broadcast(k) == Created(k) /\ calls[k].pc = "done"

\* C22: the new_message events of a room are emitted in the order in which
\* the creates completed (ids are handed out in that order): when the event
\* of a message has been emitted, the event of every message of that room
\* that was created before it has been emitted already.
C22_BroadcastInCreateOrder ==
  \A j \in CallIds, k \in CallIds :
    ( /\ Created(j)
      /\ Broadcast(k)
      /\ ToInt(calls[j].target) = ToInt(calls[k].target)
      /\ calls[j].row < calls[k].row )
    => Broadcast(j)

\* the send_message handler of slot k belongs to a connection that has closed
SenderGone(k) ==
  calls[k].op = "send_message" /\ connState[calls[k].conn] = "disconnected"

\* C23: a send_message handler that has passed validation is not cancelled
\* when its connection closes.  The close leaves the handler where it is;
\* at the persistence step the insert can go on and, unless the store fails,
\* adds the row under the sender's identity; after it the handler can go on
\* to emit new_message for that row to the members the room then has.
C23_DisconnectDoesNotCancel ==
  [][/\ last'.op = "disconnect" => calls' = calls /\ messages' = messages
     /\ \A k \in CallIds :
          SenderGone(k) =>
            /\ (calls[k].pc = "create" /\ nextMsgId <= MaxMsgs) => ENABLED SendCreate(k, "none")
            /\ calls[k].pc = "refetch" => ENABLED SendBroadcast(k)
            /\ calls[k].pc \in {"create", "refetch"} => calls'[k].pc # "idle"
            /\ (calls[k].pc = "create" /\ calls'[k] # calls[k]) =>
                 \/ last'.kind = "Exception" /\ messages' = messages
                 \/ /\ calls'[k].pc = "refetch"
                    /\ \E row \in messages' \ messages :
                         /\ row.id = calls'[k].row
                         /\ row.senderId = calls[k].user
                         /\ row.taskId = ToInt(calls[k].target)
            /\ (calls[k].pc = "refetch" /\ calls'[k] # calls[k]) =>
                 /\ calls'[k].pc = "done"
                 /\ last'.kind = "ok"
                 /\ HasMsg(messages', calls[k].row)
                 /\ Only(last'.trace, "emit")
                      = <<Emit("new_message", Members(ToInt(calls[k].target)),
                               calls[k].row)>>
                 /\ calls[k].conn \notin Members(ToInt(calls[k].target))]_vars

\* C23 witness: a connection closed while its handler was at the persistence
\* step; the row is stored and was broadcast to the member that remains
C23_Witness ==
  \E k \in CallIds :
    /\ SenderGone(k)
    /\ calls[k].pc = "done"
    /\ last.op = "send_message"
    /\ last.conn = calls[k].conn
    /\ last.kind = "ok"
    /\ HasMsg(messages, calls[k].row)
    /\ last.trace[2] = Emit("new_message", Members(1), calls[k].row)
    /\ Members(1) # {}
    /\ \A j \in CallIds \ {k} : calls[j].pc = "idle"

\* C24: in every state of the store, a message whose replyToId is set names
\* a message that exists and belongs to the same task, whatever the
\* interleaving of the creates of either path and the deletes.
C24_RepliesResolve ==
  \A m \in messages :
    m.replyToId # 0 =>
      /\ HasMsg(messages, m.replyToId)
      /\ MsgByPk(messages, m.replyToId).taskId = m.taskId

\* C24 witness: the reply target was deleted while a create that had
\* validated it was waiting to insert, and the insert was refused
C24_Witness ==
  /\ last.op \in {"createMessage", "send_message"}
  /\ last.kind = "Exception"
  /\ \E k \in CallIds :
       /\ calls[k].op = last.op
       /\ calls[k].pc = "done"
       /\ calls[k].row = 0
       /\ Truthy(calls[k].reply)
       /\ ~HasMsg(messages, ToInt(calls[k].reply))
       /\ nextMsgId > ToInt(calls[k].reply)

\* the events that are relayed and touch nothing
RelayedEvents == {"typing", "task_updated", "upload_progress"}

\* C25: a task_updated event has one effect, a refresh_task notification that
\* carries the task id and reaches every other member of that task's room
\* (and nobody outside the room); the typing, task_updated and
\* upload_progress events leave the message store and every connection's
\* rooms as they were.
C25_RelaysChangeNothing ==
  [][/\ last'.op = "task_updated" =>
          \A c \in Conns, taskId \in RoomIdInputs :
            TaskUpdated(c, taskId) =>
              /\ Len(last'.trace) = 1
              /\ last'.trace[1].k = "emit"
              /\ last'.trace[1].name = "refresh_task"
              /\ last'.trace[1].n = ToInt(taskId)
              /\ Members(ToInt(taskId)) \ {c} \subseteq last'.trace[1].to
              /\ last'.trace[1].to \subseteq Members(ToInt(taskId))
     /\ last'.op \in RelayedEvents =>
          /\ messages' = messages
          /\ nextMsgId' = nextMsgId
          /\ rooms' = rooms
          /\ connState' = connState
          /\ \A i \in 1..Len(last'.trace) : last'.trace[i].k = "emit"]_vars

\* C25 witness: a task_updated was relayed to another member of the room
\* while the store holds a message
C25_Witness ==
  /\ last.op = "task_updated"
  /\ messages # {}
  /\ \E d \in Conns \ {last.conn} : d \in last.trace[1].to
  /\ last.trace[1].to = Members(last.trace[1].n)

\* the events the server sends about a task
TaskEventNames == {"new_message", "user_typing", "refresh_task", "file_upload_progress"}

\* every connection the step's events go to is in the room of that task and
\* in no other task room
OnlyToCurrentRoom(trace, taskId) ==
  \A i \in 1..Len(trace) :
    (trace[i].k = "emit" /\ trace[i].name \in TaskEventNames) =>
      \A d \in trace[i].to : TaskRooms(d) = {TaskRoom(taskId)}

\* C26: a connection receives new_message, user_typing, refresh_task and
\* file_upload_progress events only for the one task whose room it belongs
\* to: whoever receives an event about task T is in room T and in no other
\* task room, so that a connection that went from room A to room B receives
\* nothing more about A.
C26_EventsOnlyForCurrentRoom ==
  [][/\ last'.op \in RelayedEvents =>
          \A c \in Conns, taskId \in RoomIdInputs :
            (Typing(c, taskId) \/ TaskUpdated(c, taskId) \/ UploadProgress(c, taskId))
              => OnlyToCurrentRoom(last'.trace, ToInt(taskId))
     /\ (last'.op = "send_message" /\ last'.kind = "ok") =>
          \A row \in messages' \ messages : OnlyToCurrentRoom(last'.trace, row.taskId)]_vars

\* the handlers that create messages
Creators == {"send_message", "createMessage"}

\* C27: the senderId of every stored message is the identity verified for
\* the connection or the request that created it, whatever senderId the
\* payload or the body carries: a send_message handler holds the identity
\* attached to its connection at the handshake, a createMessage handler the
\* one the authenticate middleware attached to the request; the handler
\* keeps it, inserts its row under it, and no later step changes the sender
\* of a row, so that the row is broadcast under that identity too.
C27_SenderIsVerifiedIdentity ==
  [][/\ \A k \in CallIds :
          /\ (calls[k].pc = "idle" /\ calls'[k].op = "send_message") =>
               /\ connState[calls'[k].conn] = "authenticated"
               /\ calls'[k].user = connUser[calls'[k].conn]
               /\ calls'[k].user \in Users
          /\ (calls[k].pc = "idle" /\ calls'[k].op = "createMessage") =>
               \A token \in Tokens :
                 CreateArrive(k, authenticate(token), Num(1), "hello", Undef)
                   => calls'[k].user = authenticate(token)
          /\ calls[k].op \in Creators => calls'[k].user = calls[k].user
     /\ \A row \in messages' \ messages :
          \E k \in CallIds :
            /\ calls[k].op \in Creators
            /\ calls[k].pc = "create"
            /\ calls'[k].row = row.id
            /\ row.senderId = calls[k].user
     /\ \A m \in messages, n \in messages' : m.id = n.id => n.senderId = m.senderId
     /\ \A k \in CallIds :
          (calls[k].op = "send_message" /\ calls[k].pc = "refetch" /\ calls'[k].pc = "done") =>
            /\ Only(last'.trace, "emit") # <<>>
            /\ MsgByPk(messages', Only(last'.trace, "emit")[1].n).senderId
                 = connUser[calls[k].conn]]_vars

\* C27 witness: the store holds a message of each user, one created by a
\* connection and one by a request
C27_Witness ==
  \E j \in CallIds, k \in CallIds :
    /\ calls[j].op = "send_message"
    /\ calls[k].op = "createMessage"
    /\ calls[j].row # 0
    /\ calls[k].row # 0
    /\ MsgByPk(messages, calls[j].row).senderId = connUser[calls[j].conn]
    /\ MsgByPk(messages, calls[k].row).senderId = calls[k].user
    /\ calls[j].user # calls[k].user

\* the files messageStorage has written so far, in the directory or not
EverStored == 1..(nextFile - 1)

\* the handlers that unlink files: deleteMessage, removeAttachment, and the
\* cleanups of createMessage and updateMessage
Unlinkers == {"deleteMessage", "removeAttachment", "createMessage", "updateMessage"}

\* C28: every path a handler passes to fs.unlink, when it deletes a
\* message, removes an attachment or cleans up, is the path of a file that
\* an upload stored; no attachment record of a send_message payload makes a
\* handler unlink another file.
C28_UnlinksOnlyUploads ==
  last.op \in Unlinkers =>
    \A i \in 1..Len(last.trace) :
      last.trace[i].k = "unlink" => last.trace[i].n \in EverStored

\* no handler is between two awaits
Quiescent == \A k \in CallIds : calls[k].pc \in {"idle", "done"}

\* handler k has returned after its message.update
Wrote(k, op) ==
  /\ calls[k].op = op
  /\ calls[k].pc = "done"
  /\ \E i \in 1..Len(calls[k].trace) : calls[k].trace[i].k = "update"

\* the ids of the attachments message id lists
Listed(id) ==
  {MsgByPk(messages, id).attachments[i].id : i \in 1..Len(MsgByPk(messages, id).attachments)}

\* C29: once the updateMessage and removeAttachment requests on a message
\* have all returned, in whatever order their steps were taken, the
\* message lists every attachment that was appended and not removed, lists
\* no attachment that was removed, and the file of every attachment it
\* lists is in the directory.
C29_AppendsAndRemovalsCompose ==
  Quiescent =>
    /\ \A u \in CallIds : Wrote(u, "updateMessage") =>
         \A f \in Range(calls[u].files) :
           \/ f \in Listed(calls[u].row)
           \/ \E r \in CallIds : /\ Wrote(r, "removeAttachment")
                                  /\ calls[r].row = calls[u].row
                                  /\ calls[r].found = f
    /\ \A r \in CallIds : Wrote(r, "removeAttachment") =>
         calls[r].found \notin Listed(calls[r].row)
    /\ \A m \in messages : Paths(m.attachments) \subseteq disk

\* C30: whenever the SocketService has currentTaskId T and its socket is
\* connected, with no join_task still waiting to be sent, the server-side
\* connection of the socket is in room task_T, after any sequence of
\* connect, joinTask, loss of the transport with reconnection, and
\* disconnect.
C30_CurrentTaskIsJoined ==
  (ClientConnected /\ client.sendBuffer = <<>> /\ client.currentTaskId # 0)
    => RoomName(Num(client.currentTaskId)) \in rooms[client.socket]

====
